---- MODULE Spec2Model ----
(***************************************************************************)
(* A model of papercitation: the /api/cite request handler of              *)
(* src/index.ts with its classifier, provider adapters, AI fallback and    *)
(* citation formatters, and the library functions of src/lib.              *)
(*                                                                         *)
(* A JavaScript string is a sequence of one-character strings, so that     *)
(* trim, toLowerCase, startsWith, includes, split, replace and the         *)
(* template literals are computed character by character.  Tags of closed  *)
(* sets (input type, source type, program counter) are TLA+ strings.       *)
(***************************************************************************)
EXTENDS Integers, Sequences, FiniteSets, TLC

(***************************************************************************)
(* Bounds of the model.                                                    *)
(***************************************************************************)
\* the longest run of whitespace put before and after a request's source
MaxPad == 1
\* the days that pass while a request is served
MaxDay == 1

(***************************************************************************)
(* JavaScript values.                                                      *)
(***************************************************************************)
\* the value undefined of an optional string field
Undefined == <<"undefined">>
\* an exception propagating out of an expression that yields a string
Thrown == <<"throw">>
\* the value null of a SourceMetadata | null
Null == [tag |-> "null"]
\* an exception propagating out of a function that yields a record
Fault == [tag |-> "throw"]

\* JavaScript truthiness of an optional string: neither undefined nor ""
Truthy(x) == x # Undefined /\ x # <<>>
\* a || b that always yields b
OrElseSecond(a, b) == b

\* a || b on optional strings
OrElse(a, b) == IF Truthy(a) THEN a ELSE b

(***************************************************************************)
(* String primitives.                                                      *)
(***************************************************************************)
UpperCaseLetters ==
    <<"A","B","C","D","E","F","G","H","I","J","K","L","M",
      "N","O","P","Q","R","S","T","U","V","W","X","Y","Z">>
LowerCaseLetters ==
    <<"a","b","c","d","e","f","g","h","i","j","k","l","m",
      "n","o","p","q","r","s","t","u","v","w","x","y","z">>

toLowerCaseChar(c) ==
    IF \E i \in DOMAIN UpperCaseLetters : UpperCaseLetters[i] = c
    THEN LowerCaseLetters[CHOOSE i \in DOMAIN UpperCaseLetters : UpperCaseLetters[i] = c]
    ELSE c
toUpperCaseChar(c) ==
    IF \E i \in DOMAIN LowerCaseLetters : LowerCaseLetters[i] = c
    THEN UpperCaseLetters[CHOOSE i \in DOMAIN LowerCaseLetters : LowerCaseLetters[i] = c]
    ELSE c
\* String.prototype.toLowerCase (the concatenation makes the value a tuple)
toLowerCase(s) == <<>> \o [i \in 1..Len(s) |-> toLowerCaseChar(s[i])]

\* the characters \s of a regular expression and of trim()
isWhiteSpace(c) == c \in {" ", "\t", "\n"}
\* the characters \d of a regular expression
isDigit(c) == c \in {"0","1","2","3","4","5","6","7","8","9"}

MinOf(S) == CHOOSE x \in S : \A y \in S : x <= y
MaxOf(S) == CHOOSE x \in S : \A y \in S : x >= y

\* String.prototype.trim
trim(s) ==
    LET keep == {i \in 1..Len(s) : ~isWhiteSpace(s[i])}
    IN  IF keep = {} THEN <<>> ELSE SubSeq(s, MinOf(keep), MaxOf(keep))
\* String.prototype.startsWith
startsWith(s, p) == Len(s) >= Len(p) /\ SubSeq(s, 1, Len(p)) = p
\* the positions at which p occurs in s
occurrences(s, p) == {i \in 1..(Len(s) - Len(p) + 1) : SubSeq(s, i, i + Len(p) - 1) = p}
\* String.prototype.includes
includes(s, p) == occurrences(s, p) # {}
\* String.prototype.indexOf, 1-based, 0 when p does not occur
indexOf(s, p) == IF includes(s, p) THEN MinOf(occurrences(s, p)) ELSE 0
\* s.split(sep)[1] for an s that includes sep: what lies between the first
\* occurrence of sep and the next one (or the end)
splitSecond(s, sep) ==
    LET rest == SubSeq(s, indexOf(s, sep) + Len(sep), Len(s))
    IN  IF includes(rest, sep) THEN SubSeq(rest, 1, indexOf(rest, sep) - 1) ELSE rest
\* s.replace(/[-\s]/g, "")
removeHyphensAndSpaces(s) == SelectSeq(s, LAMBDA c : ~(c = "-" \/ isWhiteSpace(c)))
\* /^(?:\d{10}|\d{13})$/.test(s)
isTenOrThirteenDigits(s) == Len(s) \in {10, 13} /\ \A i \in 1..Len(s) : isDigit(s[i])
\* s.replace(/^https?:\/\//, "")
stripScheme(s) ==
    IF startsWith(s, <<"h","t","t","p","s",":","/","/">>) THEN SubSeq(s, 9, Len(s))
    ELSE IF startsWith(s, <<"h","t","t","p",":","/","/">>) THEN SubSeq(s, 8, Len(s))
    ELSE s

(***************************************************************************)
(* lib/detect.ts: the classifier and the identifier extractors.            *)
(***************************************************************************)
InputTypes == {"doi", "isbn", "youtube", "wikipedia", "url", "text"}

\* detectInputType without its last line, return "text"
detectInputTypeNoDefault(source) ==
    LET s == toLowerCase(trim(source))
        isbnClean == removeHyphensAndSpaces(source)
    IN  IF startsWith(s, <<"1","0",".">>) \/ includes(s, <<"d","o","i",".","o","r","g","/">>) THEN "doi"
        ELSE IF isTenOrThirteenDigits(isbnClean) THEN "isbn"
        ELSE IF includes(s, <<"y","o","u","t","u","b","e",".","c","o","m">>) \/ includes(s, <<"y","o","u","t","u",".","b","e">>) THEN "youtube"
        ELSE IF includes(s, <<"w","i","k","i","p","e","d","i","a",".","o","r","g">>) THEN "wikipedia"
        ELSE IF startsWith(s, <<"h","t","t","p",":","/","/">>) \/ startsWith(s, <<"h","t","t","p","s",":","/","/">>) THEN "url"
        ELSE "undefined"

\* detectInputType with the URL test moved in front of the DOI test
detectInputTypeURLFirst(source) ==
    LET s == toLowerCase(trim(source))
        isbnClean == removeHyphensAndSpaces(source)
    IN  IF startsWith(s, <<"h","t","t","p",":","/","/">>) \/ startsWith(s, <<"h","t","t","p","s",":","/","/">>) THEN "url"
        ELSE IF startsWith(s, <<"1","0",".">>) \/ includes(s, <<"d","o","i",".","o","r","g","/">>) THEN "doi"
        ELSE IF isTenOrThirteenDigits(isbnClean) THEN "isbn"
        ELSE IF includes(s, <<"y","o","u","t","u","b","e",".","c","o","m">>) \/ includes(s, <<"y","o","u","t","u",".","b","e">>) THEN "youtube"
        ELSE IF includes(s, <<"w","i","k","i","p","e","d","i","a",".","o","r","g">>) THEN "wikipedia"
        ELSE "text"

detectInputType(source) ==
    LET s == toLowerCase(trim(source))
        isbnClean == removeHyphensAndSpaces(source)
    IN  IF startsWith(s, <<"1","0",".">>) \/ includes(s, <<"d","o","i",".","o","r","g","/">>)
        THEN "doi"
        ELSE IF isTenOrThirteenDigits(isbnClean)
        THEN "isbn"
        ELSE IF \/ includes(s, <<"y","o","u","t","u","b","e",".","c","o","m">>)
                \/ includes(s, <<"y","o","u","t","u",".","b","e">>)
        THEN "youtube"
        ELSE IF includes(s, <<"w","i","k","i","p","e","d","i","a",".","o","r","g">>)
        THEN "wikipedia"
        ELSE IF \/ startsWith(s, <<"h","t","t","p",":","/","/">>)
                \/ startsWith(s, <<"h","t","t","p","s",":","/","/">>)
        THEN "url"
        ELSE "text"

extractDOI(source) ==
    LET doi == IF includes(source, <<"d","o","i",".","o","r","g","/">>)
               THEN splitSecond(source, <<"d","o","i",".","o","r","g","/">>)
               ELSE source
    IN  stripScheme(doi)

extractISBN(source) == removeHyphensAndSpaces(source)

(***************************************************************************)
(* index.ts: the handler's own copy of the classifier.                     *)
(***************************************************************************)
detectSourceType(source) ==
    LET s == toLowerCase(trim(source))
        isbnClean == removeHyphensAndSpaces(source)
    IN  CASE startsWith(s, <<"1","0",".">>) \/ includes(s, <<"d","o","i",".","o","r","g","/">>)
               -> "doi"
          [] OTHER ->
        CASE isTenOrThirteenDigits(isbnClean) -> "isbn"
          [] OTHER ->
        CASE includes(s, <<"y","o","u","t","u","b","e",".","c","o","m">>)
               \/ includes(s, <<"y","o","u","t","u",".","b","e">>) -> "youtube"
          [] OTHER ->
        CASE includes(s, <<"w","i","k","i","p","e","d","i","a",".","o","r","g">>) -> "wikipedia"
          [] OTHER ->
        CASE startsWith(s, <<"h","t","t","p",":","/","/">>)
               \/ startsWith(s, <<"h","t","t","p","s",":","/","/">>) -> "url"
          [] OTHER -> "text"

(***************************************************************************)
(* lib/authors.ts: getMonthName; and the conversions the adapters use.     *)
(***************************************************************************)
MonthNames ==
    << <<"J","a","n","u","a","r","y">>, <<"F","e","b","r","u","a","r","y">>,
       <<"M","a","r","c","h">>, <<"A","p","r","i","l">>, <<"M","a","y">>,
       <<"J","u","n","e">>, <<"J","u","l","y">>, <<"A","u","g","u","s","t">>,
       <<"S","e","p","t","e","m","b","e","r">>, <<"O","c","t","o","b","e","r">>,
       <<"N","o","v","e","m","b","e","r">>, <<"D","e","c","e","m","b","e","r">> >>

\* months[month - 1] || ""
getMonthName(month) == IF month \in DOMAIN MonthNames THEN MonthNames[month] ELSE <<>>

DecimalDigits == <<"0","1","2","3","4","5","6","7","8","9">>

RECURSIVE numToString(_)
\* Number.prototype.toString of a natural number
numToString(n) ==
    IF n < 10 THEN <<DecimalDigits[n + 1]>>
    ELSE numToString(n \div 10) \o <<DecimalDigits[(n % 10) + 1]>>

\* ${x} in a template literal: undefined is rendered as the word
templ(x) == IF x = Undefined THEN <<"u","n","d","e","f","i","n","e","d">> ELSE x
\* list?.[0]
firstOf(list) == IF list = <<>> THEN Undefined ELSE list[1]
\* try { ... } catch (e) { return null; }
catchNull(r) == IF r = Fault THEN Null ELSE r

SourceTypes == {"website", "book", "article", "video", "encyclopedia"}

(***************************************************************************)
(* What a provider can answer to one HTTP request: the fetch fails, the    *)
(* status is not OK, the body does not parse, or the body is `data`.       *)
(***************************************************************************)
NetFail == [kind |-> "netfail"]
NotOk == [kind |-> "notok"]
BadBody == [kind |-> "badbody"]
Ok(data) == [kind |-> "ok", data |-> data]

NoDate == [present |-> FALSE, parts |-> <<>>]
DateParts(parts) == [present |-> TRUE, parts |-> parts]

\* CrossRef works: data.message
CrossRefWorks ==
    { [tag |-> "undefined"],
      [tag |-> "work",
       author |-> << [family |-> <<"S","m","i","t","h">>, given |-> <<"J","o","h","n">>] >>,
       title |-> << <<"A"," ","S","t","u","d","y">> >>,
       container |-> << <<"J","o","u","r","n","a","l"," ","X">> >>,
       publisher |-> Undefined,
       published |-> DateParts(<<2020>>), online |-> NoDate, print |-> NoDate],
      [tag |-> "work",
       author |-> << [family |-> Undefined, given |-> Undefined],
                     [family |-> <<"R","o","e">>, given |-> <<"A","n","n"," "," ","B">>] >>,
       title |-> <<>>,
       container |-> <<>>,
       publisher |-> <<"A","C","M","E">>,
       published |-> NoDate, online |-> DateParts(<<2019, 13>>), print |-> DateParts(<<2018, 3, 5>>)],
      [tag |-> "work",
       author |-> <<>>, title |-> <<>>, container |-> <<>>, publisher |-> Undefined,
       published |-> NoDate, online |-> NoDate, print |-> DateParts(<<2018, 3, 5>>)],
      [tag |-> "work",
       author |-> <<>>, title |-> <<>>, container |-> <<>>, publisher |-> Undefined,
       published |-> NoDate, online |-> NoDate, print |-> NoDate] }

CrossRefResponses == {NetFail, NotOk, BadBody} \cup {Ok([message |-> w]) : w \in CrossRefWorks}

(***************************************************************************)
(* lib/fetchers.ts: the direct fetchers.  index.ts holds the same code     *)
(* (its fetchDOIMetadata inlines extractDOI).  The ...Try operators are    *)
(* the body of the try block, the adapter is the body under its catch.     *)
(***************************************************************************)
fetchDOIMetadataTry(source, resp) ==
    LET doi == extractDOI(source)
    IN  CASE resp.kind = "netfail" -> Fault
          [] resp.kind = "notok" -> Null
          [] resp.kind = "badbody" -> Fault
          [] OTHER ->
             LET work == resp.data.message
             IN  IF work.tag = "undefined" THEN Fault
                 ELSE
                 LET authors == [i \in 1..Len(work.author) |->
                                   templ(work.author[i].family)
                                   \o (IF Truthy(work.author[i].given)
                                       THEN <<","," ">> \o work.author[i].given
                                       ELSE <<>>)]
                     published == IF work.published.present THEN work.published.parts
                                  ELSE IF work.online.present THEN work.online.parts
                                  ELSE IF work.print.present THEN work.print.parts
                                  ELSE <<>>
                 IN  [tag |-> "record",
                      authors |-> authors,
                      title |-> OrElse(firstOf(work.title), <<"U","n","t","i","t","l","e","d">>),
                      siteName |-> OrElse(firstOf(work.container),
                                     OrElse(work.publisher,
                                       <<"U","n","k","n","o","w","n"," ","P","u","b","l","i","s","h","e","r">>)),
                      publisher |-> work.publisher,
                      year |-> IF Len(published) >= 1 THEN numToString(published[1]) ELSE Undefined,
                      month |-> IF Len(published) >= 2 /\ published[2] # 0
                                THEN getMonthName(published[2]) ELSE Undefined,
                      day |-> IF Len(published) >= 3 THEN numToString(published[3]) ELSE Undefined,
                      url |-> <<"h","t","t","p","s",":","/","/","d","o","i",".","o","r","g","/">> \o doi,
                      accessDate |-> <<>>,
                      type |-> "article"]

fetchDOIMetadata(source, resp) == catchNull(fetchDOIMetadataTry(source, resp))

\* publishedDate.match(/^\d{4}/): the four leading digits, or no match
leadingYear(s) ==
    IF s # Undefined /\ Len(s) >= 4 /\ \A i \in 1..4 : isDigit(s[i])
    THEN SubSeq(s, 1, 4) ELSE Undefined
\* publishDate.match(/\d{4}/): the first four consecutive digits, or no match
firstYear(s) ==
    LET at == {i \in 1..(Len(s) - 3) : \A k \in 0..3 : isDigit(s[i + k])}
    IN  IF at = {} THEN Undefined ELSE SubSeq(s, MinOf(at), MinOf(at) + 3)

RECURSIVE digitsToNat(_)
digitsToNat(s) ==
    IF s = <<>> THEN 0
    ELSE 10 * digitsToNat(SubSeq(s, 1, Len(s) - 1))
         + (CHOOSE d \in 0..9 : DecimalDigits[d + 1] = s[Len(s)])
\* parseInt of a string that starts with decimal digits
parseInt(s) ==
    LET stop == {i \in 1..Len(s) : ~isDigit(s[i])}
    IN  digitsToNat(IF stop = {} THEN s ELSE SubSeq(s, 1, MinOf(stop) - 1))

\* Google Books volumes: data.items
VolumeAusten ==
    [id |-> <<"v","1">>,
     volumeInfo |-> [tag |-> "info", authors |-> << <<"J","a","n","e"," ","A","u","s","t","e","n">> >>,
                     title |-> <<"P","r","i","d","e"," ","a","n","d"," ","P","r","e","j","u","d","i","c","e">>, publisher |-> <<"P","e","n","g","u","i","n">>,
                     publishedDate |-> <<"2","0","0","3","-","0","1","-","3","0">>, infoLink |-> <<"h","t","t","p","s",":","/","/","g",".","c","o","/","1">>]]
VolumeTwoSpaces ==
    [id |-> <<"v","2">>,
     volumeInfo |-> [tag |-> "info", authors |-> << <<"J","a","n","e"," "," ","A","u","s","t","e","n">> >>,
                     title |-> <<"E","m","m","a">>, publisher |-> Undefined,
                     publishedDate |-> <<"1","8","1","5">>, infoLink |-> Undefined]]
VolumeBare ==
    [id |-> <<"v","3">>,
     volumeInfo |-> [tag |-> "info", authors |-> <<>>,
                     title |-> Undefined, publisher |-> Undefined,
                     publishedDate |-> Undefined, infoLink |-> Undefined]]
VolumeNoInfo == [id |-> <<"v","4">>, volumeInfo |-> [tag |-> "undefined"]]
\* another edition of VolumeAusten, catalogued in capitals
VolumeAustenReprint ==
    [id |-> <<"v","5">>,
     volumeInfo |-> [tag |-> "info", authors |-> << <<"J","A","N","E"," ","A","U","S","T","E","N">> >>,
                     title |-> <<"P","R","I","D","E"," ","A","N","D"," ","P","R","E","J","U","D","I","C","E">>, publisher |-> Undefined,
                     publishedDate |-> <<"2","0","1","9">>, infoLink |-> Undefined]]
VolumeAnonymous ==
    [id |-> <<"v","6">>,
     volumeInfo |-> [tag |-> "info", authors |-> <<>>,
                     title |-> <<"E","m","m","a">>, publisher |-> <<"P","e","n","g","u","i","n">>,
                     publishedDate |-> Undefined, infoLink |-> Undefined]]

GoogleISBNResponses ==
    {NetFail, NotOk, BadBody}
    \cup {Ok([items |-> l]) : l \in {<<>>, <<VolumeAusten>>, <<VolumeTwoSpaces, VolumeAusten>>,
                                     <<VolumeBare>>, <<VolumeNoInfo>>}}

fetchGoogleBooksByISBNTry(isbn, resp) ==
    CASE resp.kind = "netfail" -> Fault
      [] resp.kind = "notok" -> Null
      [] resp.kind = "badbody" -> Fault
      [] OTHER ->
         IF resp.data.items = <<>> THEN Null
         ELSE
         LET info == resp.data.items[1].volumeInfo
         IN  IF info.tag = "undefined" THEN Null
             ELSE [tag |-> "record",
                   authors |-> info.authors,
                   title |-> OrElse(info.title, <<"U","n","t","i","t","l","e","d">>),
                   siteName |-> OrElse(info.publisher, <<"U","n","k","n","o","w","n"," ","P","u","b","l","i","s","h","e","r">>),
                   publisher |-> info.publisher,
                   year |-> leadingYear(info.publishedDate),
                   month |-> Undefined,
                   day |-> Undefined,
                   url |-> OrElse(info.infoLink, <<"h","t","t","p","s",":","/","/","b","o","o","k","s",".","g","o","o","g","l","e",".","c","o","m","/","b","o","o","k","s","?","q","=","i","s","b","n",":">> \o isbn),
                   accessDate |-> <<>>,
                   type |-> "book"]

fetchGoogleBooksByISBN(isbn, resp) == catchNull(fetchGoogleBooksByISBNTry(isbn, resp))

\* Open Library books: data["ISBN:<isbn>"]
OpenLibraryBooks ==
    { [tag |-> "undefined"],
      [tag |-> "book", authors |-> << <<"J","a","n","e"," ","A","u","s","t","e","n">> >>, title |-> <<"P","r","i","d","e"," ","a","n","d"," ","P","r","e","j","u","d","i","c","e">>,
       publish_date |-> <<"J","u","n","e"," ","1","8","1","3">>, publishers |-> << <<"T","."," ","E","g","e","r","t","o","n">> >>,
       url |-> <<"h","t","t","p","s",":","/","/","o","l",".","o","r","g","/","b","1">>],
      [tag |-> "book", authors |-> << <<"J"," ","A","u","s","t","e","n">> >>, title |-> <<"P","r","i","d","e"," ","a","n","d"," ","P","r","e","j","u","d","i","c","e">>,
       publish_date |-> <<"2","0","1","0">>, publishers |-> <<>>, url |-> Undefined],
      [tag |-> "book", authors |-> <<>>, title |-> Undefined,
       publish_date |-> Undefined, publishers |-> <<>>, url |-> Undefined] }

OpenLibraryISBNResponses ==
    {NetFail, NotOk, BadBody} \cup {Ok([book |-> b]) : b \in OpenLibraryBooks}

fetchOpenLibraryByISBNTry(isbn, resp) ==
    CASE resp.kind = "netfail" -> Fault
      [] resp.kind = "notok" -> Null
      [] resp.kind = "badbody" -> Fault
      [] OTHER ->
         LET book == resp.data.book
         IN  IF book.tag = "undefined" THEN Null
             ELSE
             LET publishDate == OrElse(book.publish_date, <<>>)
             IN  [tag |-> "record",
                  authors |-> book.authors,
                  title |-> OrElse(book.title, <<"U","n","t","i","t","l","e","d">>),
                  siteName |-> OrElse(firstOf(book.publishers), <<"U","n","k","n","o","w","n"," ","P","u","b","l","i","s","h","e","r">>),
                  publisher |-> firstOf(book.publishers),
                  year |-> firstYear(publishDate),
                  month |-> Undefined,
                  day |-> Undefined,
                  url |-> OrElse(book.url, <<"h","t","t","p","s",":","/","/","o","p","e","n","l","i","b","r","a","r","y",".","o","r","g","/","i","s","b","n","/">> \o isbn),
                  accessDate |-> <<>>,
                  type |-> "book"]

fetchOpenLibraryByISBN(isbn, resp) == catchNull(fetchOpenLibraryByISBNTry(isbn, resp))

\* the merge with the comparison of the years turned round: openLibYear > googleYear
mergeISBNLaterYear(googleResult, openLibResult) ==
    IF googleResult # Null /\ openLibResult # Null
    THEN LET googleYear == parseInt(OrElse(googleResult.year, <<"9","9","9","9">>))
             openLibYear == parseInt(OrElse(openLibResult.year, <<"9","9","9","9">>))
         IN  [googleResult EXCEPT
                !.year = IF openLibYear > googleYear THEN openLibResult.year
                         ELSE googleResult.year,
                !.publisher = OrElse(googleResult.publisher, openLibResult.publisher)]
    ELSE IF googleResult # Null THEN googleResult ELSE openLibResult

\* the merge that spreads ...openLibResult in place of ...googleResult
mergeISBNSpreadOpenLib(googleResult, openLibResult) ==
    IF googleResult # Null /\ openLibResult # Null
    THEN LET googleYear == parseInt(OrElse(googleResult.year, <<"9","9","9","9">>))
             openLibYear == parseInt(OrElse(openLibResult.year, <<"9","9","9","9">>))
         IN  [openLibResult EXCEPT
                !.year = IF openLibYear < googleYear THEN openLibResult.year
                         ELSE googleResult.year,
                !.publisher = OrElse(googleResult.publisher, openLibResult.publisher)]
    ELSE IF googleResult # Null THEN googleResult ELSE openLibResult

\* lib/fetchers.ts fetchISBNMetadata, after both branches of Promise.all
\* have completed with googleResult and openLibResult
mergeISBN(googleResult, openLibResult) ==
    IF googleResult # Null /\ openLibResult # Null
    THEN LET googleYear == parseInt(OrElse(googleResult.year, <<"9","9","9","9">>))
             openLibYear == parseInt(OrElse(openLibResult.year, <<"9","9","9","9">>))
         IN  [googleResult EXCEPT
                !.year = IF openLibYear < googleYear THEN openLibResult.year
                         ELSE googleResult.year,
                !.publisher = OrElse(googleResult.publisher, openLibResult.publisher)]
    ELSE IF googleResult # Null THEN googleResult ELSE openLibResult

\* YouTube oEmbed documents
YouTubeResponses ==
    {NetFail, NotOk, BadBody}
    \cup {Ok(d) : d \in {[author_name |-> <<"C","h","a","n">>, title |-> <<"V","i","d">>],
                         [author_name |-> Undefined, title |-> Undefined]}}

fetchYouTubeMetadataTry(source, resp) ==
    CASE resp.kind = "netfail" -> Fault
      [] resp.kind = "notok" -> Null
      [] resp.kind = "badbody" -> Fault
      [] OTHER ->
         [tag |-> "record",
          authors |-> << OrElse(resp.data.author_name, <<"U","n","k","n","o","w","n">>) >>,
          title |-> OrElse(resp.data.title, <<"U","n","t","i","t","l","e","d">>),
          siteName |-> <<"Y","o","u","T","u","b","e">>,
          publisher |-> Undefined,
          year |-> Undefined,
          month |-> Undefined,
          day |-> Undefined,
          url |-> source,
          accessDate |-> <<>>,
          type |-> "video"]

fetchYouTubeMetadata(source, resp) == catchNull(fetchYouTubeMetadataTry(source, resp))

(***************************************************************************)
(* decodeURIComponent: %XX escapes are bytes of UTF-8; a malformed escape  *)
(* or byte sequence throws URIError.  A decoded character outside          *)
(* printable ASCII is written "U+<code point>" (and so is the grave       *)
(* accent, which a TLA+ string cannot hold).                               *)
(***************************************************************************)
AsciiPrintable ==
    <<" ","!","\"","#","$","%","&","'","(",")","*","+",",","-",".","/",
      "0","1","2","3","4","5","6","7","8","9",":",";","<","=",">","?",
      "@","A","B","C","D","E","F","G","H","I","J","K","L","M","N","O",
      "P","Q","R","S","T","U","V","W","X","Y","Z","[","\\","]","^","_",
      "U+96","a","b","c","d","e","f","g","h","i","j","k","l","m","n","o",
      "p","q","r","s","t","u","v","w","x","y","z","{","|","}","~">>
HexDigits == <<"0","1","2","3","4","5","6","7","8","9","a","b","c","d","e","f">>

isHexDigit(c) == \E i \in DOMAIN HexDigits : HexDigits[i] = toLowerCaseChar(c)
hexValue(c) == (CHOOSE i \in DOMAIN HexDigits : HexDigits[i] = toLowerCaseChar(c)) - 1
\* whether "%XX" with two hexadecimal digits stands at position i of s
escapeAt(s, i) ==
    i + 2 <= Len(s) /\ s[i] = "%" /\ isHexDigit(s[i + 1]) /\ isHexDigit(s[i + 2])
byteAt(s, i) == 16 * hexValue(s[i + 1]) + hexValue(s[i + 2])
charOfCode(n) ==
    IF n \in 32..126 THEN AsciiPrintable[n - 31]
    ELSE IF n = 9 THEN "\t"
    ELSE IF n = 10 THEN "\n"
    ELSE "U+" \o ToString(n)
\* concatenation that lets an exception through
cat(a, b) == IF a = Thrown \/ b = Thrown THEN Thrown ELSE a \o b

\* the number of continuation bytes a UTF-8 lead byte announces, 0 when it is
\* no lead byte
continuationBytes(b) ==
    IF b \in 194..223 THEN 1 ELSE IF b \in 224..239 THEN 2 ELSE IF b \in 240..244 THEN 3 ELSE 0
\* the range the first continuation byte must lie in
firstContinuationRange(b) ==
    IF b = 224 THEN 160..191 ELSE IF b = 237 THEN 128..159
    ELSE IF b = 240 THEN 144..191 ELSE IF b = 244 THEN 128..143 ELSE 128..191

RECURSIVE decodeFrom(_, _)
decodeFrom(s, i) ==
    IF i > Len(s) THEN <<>>
    ELSE IF s[i] # "%" THEN cat(<<s[i]>>, decodeFrom(s, i + 1))
    ELSE IF ~escapeAt(s, i) THEN Thrown
    ELSE
    LET b == byteAt(s, i)
        n == continuationBytes(b)
    IN  IF b < 128 THEN cat(<<charOfCode(b)>>, decodeFrom(s, i + 3))
        ELSE IF n = 0 THEN Thrown
        ELSE IF /\ \A k \in 1..n : escapeAt(s, i + 3 * k) /\ byteAt(s, i + 3 * k) \in 128..191
                /\ byteAt(s, i + 3) \in firstContinuationRange(b)
        THEN LET lead == IF n = 1 THEN b - 192 ELSE IF n = 2 THEN b - 224 ELSE b - 240
                 c1 == byteAt(s, i + 3) - 128
                 c2 == IF n >= 2 THEN byteAt(s, i + 6) - 128 ELSE 0
                 c3 == IF n >= 3 THEN byteAt(s, i + 9) - 128 ELSE 0
                 code == IF n = 1 THEN lead * 64 + c1
                         ELSE IF n = 2 THEN lead * 4096 + c1 * 64 + c2
                         ELSE lead * 262144 + c1 * 4096 + c2 * 64 + c3
             IN  cat(<<charOfCode(code)>>, decodeFrom(s, i + 3 * (n + 1)))
        ELSE Thrown

decodeURIComponent(s) == decodeFrom(s, 1)

\* articleSlug without .replace(/_/g, " ")
underscoresKept(s) == s

\* s.replace(/_/g, " ")
underscoresToSpaces(s) == [i \in 1..Len(s) |-> IF s[i] = "_" THEN " " ELSE s[i]]
\* s.replace(p, r) for a string p: the first occurrence only
replaceFirst(s, p, r) ==
    IF includes(s, p)
    THEN SubSeq(s, 1, indexOf(s, p) - 1) \o r \o SubSeq(s, indexOf(s, p) + Len(p), Len(s))
    ELSE s

\* source.match(/wikipedia\.org\/wiki\/([^#?]+)/): the captured group of the
\* leftmost match, Undefined when there is none
wikiSlugMatch(source) ==
    LET lit == <<"w","i","k","i","p","e","d","i","a",".","o","r","g","/","w","i","k","i","/">>
        starts == {i \in occurrences(source, lit) :
                     /\ i + Len(lit) <= Len(source)
                     /\ source[i + Len(lit)] \notin {"#", "?"}}
    IN  IF starts = {} THEN Undefined
        ELSE LET b == MinOf(starts) + Len(lit)
                 stops == {j \in b..Len(source) : source[j] \in {"#", "?"}}
             IN  SubSeq(source, b, IF stops = {} THEN Len(source) ELSE MinOf(stops) - 1)

fetchWikipediaMetadataTry(source) ==
    LET match == wikiSlugMatch(source)
    IN  IF match = Undefined THEN Null
        ELSE
        LET articleTitle == decodeURIComponent(underscoresToSpaces(match))
        IN  IF articleTitle = Thrown THEN Fault
            ELSE [tag |-> "record",
                  authors |-> <<>>,
                  title |-> articleTitle,
                  siteName |-> <<"W","i","k","i","p","e","d","i","a">>,
                  publisher |-> <<"W","i","k","i","m","e","d","i","a"," ","F","o","u","n","d","a","t","i","o","n">>,
                  year |-> Undefined,
                  month |-> Undefined,
                  day |-> Undefined,
                  url |-> source,
                  accessDate |-> <<>>,
                  type |-> "encyclopedia"]

\* fetchWikipediaMetadata without its try and catch
fetchWikipediaMetadataNoCatch(source) == fetchWikipediaMetadataTry(source)

fetchWikipediaMetadata(source) == catchNull(fetchWikipediaMetadataTry(source))

(***************************************************************************)
(* The generic URL fetcher.  A page is what getMetaContent and the <title> *)
(* pattern capture from its HTML, per meta name (Undefined: no match).     *)
(***************************************************************************)
\* new URL(source).hostname of an http(s) URL without userinfo or port:
\* Thrown when the URL does not parse
urlHostname(source) ==
    LET u == toLowerCase(trim(source))
        rest == IF startsWith(u, <<"h","t","t","p","s",":","/","/">>) THEN SubSeq(u, 9, Len(u))
                ELSE IF startsWith(u, <<"h","t","t","p",":","/","/">>) THEN SubSeq(u, 8, Len(u))
                ELSE Undefined
        stops == {j \in 1..Len(rest) : rest[j] \in {"/", "?", "#"}}
        host == IF stops = {} THEN rest ELSE SubSeq(rest, 1, MinOf(stops) - 1)
    IN  IF rest = Undefined \/ host = <<>> THEN Thrown
        ELSE IF \E j \in 1..Len(host) : host[j] \in {" ", "%", "<", ">", "^", "|", "\\"} THEN Thrown
        ELSE host

\* new Date(dateStr) of a date in the form YYYY-MM-DD; any other text is an
\* invalid date
parseDate(s) ==
    IF /\ Len(s) = 10
       /\ \A i \in {1, 2, 3, 4, 6, 7, 9, 10} : isDigit(s[i])
       /\ s[5] = "-" /\ s[8] = "-"
       /\ digitsToNat(SubSeq(s, 6, 7)) \in 1..12
       /\ digitsToNat(SubSeq(s, 9, 10)) \in 1..28
    THEN [valid |-> TRUE, year |-> digitsToNat(SubSeq(s, 1, 4)),
          month |-> digitsToNat(SubSeq(s, 6, 7)), day |-> digitsToNat(SubSeq(s, 9, 10))]
    ELSE [valid |-> FALSE, year |-> 0, month |-> 0, day |-> 0]

PageFull ==
    [ogTitle |-> <<"B","i","g"," ","N","e","w","s">>, titleTag |-> <<" ","B","i","g"," ","N","e","w","s"," ","|"," ","S","i","t","e"," ">>,
     articlePublishedTime |-> <<"2","0","2","4","-","0","3","-","0","5">>, datePublished |-> Undefined, date |-> Undefined,
     author |-> <<"J","a","n","e"," ","D","o","e">>, articleAuthor |-> Undefined, ogArticleAuthor |-> Undefined,
     ogSiteName |-> <<"T","h","e"," ","S","i","t","e">>]
PageTitleOnly ==
    [ogTitle |-> Undefined, titleTag |-> <<" ","H","o","m","e"," ">>,
     articlePublishedTime |-> Undefined, datePublished |-> Undefined, date |-> <<"s","o","o","n">>,
     author |-> Undefined, articleAuthor |-> Undefined, ogArticleAuthor |-> <<" ","J","a","n","e"," ","D","o","e">>,
     ogSiteName |-> Undefined]
PageEmpty ==
    [ogTitle |-> Undefined, titleTag |-> Undefined,
     articlePublishedTime |-> Undefined, datePublished |-> Undefined, date |-> Undefined,
     author |-> Undefined, articleAuthor |-> Undefined, ogArticleAuthor |-> Undefined,
     ogSiteName |-> Undefined]

PageResponses == {NetFail, NotOk, BadBody} \cup {Ok(p) : p \in {PageFull, PageTitleOnly, PageEmpty}}

fetchURLMetadataTry(source, resp) ==
    CASE urlHostname(source) = Thrown -> Fault
      [] resp.kind = "netfail" -> Fault
      [] resp.kind = "notok" -> Null
      [] resp.kind = "badbody" -> Fault
      [] OTHER ->
         LET page == resp.data
             title == IF Truthy(page.ogTitle) THEN page.ogTitle
                      ELSE IF page.titleTag # Undefined THEN trim(page.titleTag)
                      ELSE <<"U","n","t","i","t","l","e","d">>
             dateStr == OrElse(page.articlePublishedTime, OrElse(page.datePublished, page.date))
             date == IF Truthy(dateStr) THEN parseDate(dateStr) ELSE parseDate(<<>>)
             authorStr == OrElse(page.author, OrElse(page.articleAuthor, page.ogArticleAuthor))
         IN  [tag |-> "record",
              authors |-> IF Truthy(authorStr) THEN <<authorStr>> ELSE <<>>,
              title |-> title,
              siteName |-> OrElse(page.ogSiteName,
                                  replaceFirst(urlHostname(source), <<"w","w","w",".">>, <<>>)),
              publisher |-> Undefined,
              year |-> IF date.valid THEN numToString(date.year) ELSE Undefined,
              month |-> IF date.valid THEN getMonthName(date.month) ELSE Undefined,
              day |-> IF date.valid THEN numToString(date.day) ELSE Undefined,
              url |-> source,
              accessDate |-> <<>>,
              type |-> "website"]

fetchURLMetadata(source, resp) == catchNull(fetchURLMetadataTry(source, resp))

(***************************************************************************)
(* index.ts: the single-best-match book lookups of the text case and the   *)
(* sequential ISBN lookup.                                                 *)
(***************************************************************************)
GoogleSearchResponses ==
    {NetFail, NotOk, BadBody}
    \cup {Ok([items |-> l]) : l \in {<<>>, <<VolumeTwoSpaces, VolumeAusten>>,
                                     <<VolumeBare>>, <<VolumeNoInfo>>,
                                     <<VolumeAusten, VolumeAustenReprint>>,
                                     <<VolumeTwoSpaces, VolumeAnonymous, VolumeAustenReprint, VolumeBare>>}}

\* for (const item of data.items): the first item whose lower-cased title
\* equals the query, else data.items[0]
bestMatchOf(items, queryLower) ==
    LET titleOf(item) == IF item.volumeInfo.tag = "undefined" THEN <<>>
                         ELSE toLowerCase(OrElse(item.volumeInfo.title, <<>>))
        exact == {i \in 1..Len(items) : titleOf(items[i]) = queryLower}
    IN  IF exact = {} THEN items[1] ELSE items[MinOf(exact)]

searchGoogleBooksBestTry(query, resp) ==
    CASE resp.kind = "netfail" -> Fault
      [] resp.kind = "notok" -> Null
      [] resp.kind = "badbody" -> Fault
      [] OTHER ->
         IF resp.data.items = <<>> THEN Null
         ELSE
         LET bestMatch == bestMatchOf(resp.data.items, trim(toLowerCase(query)))
             info == bestMatch.volumeInfo
         IN  IF info.tag = "undefined" THEN Null
             ELSE [tag |-> "record",
                   authors |-> info.authors,
                   title |-> OrElse(info.title, query),
                   siteName |-> OrElse(info.publisher, <<"U","n","k","n","o","w","n"," ","P","u","b","l","i","s","h","e","r">>),
                   publisher |-> info.publisher,
                   year |-> leadingYear(info.publishedDate),
                   month |-> Undefined,
                   day |-> Undefined,
                   url |-> OrElse(info.infoLink,
                                  <<"h","t","t","p","s",":","/","/","b","o","o","k","s",".","g","o","o","g","l","e",".","c","o","m","/","b","o","o","k","s","?","i","d","=">> \o bestMatch.id),
                   accessDate |-> <<>>,
                   type |-> "book"]

searchGoogleBooksBest(query, resp) == catchNull(searchGoogleBooksBestTry(query, resp))

\* Open Library search documents: data.docs
DocAusten ==
    [tag |-> "doc", key |-> <<"/","w","o","r","k","s","/","O","L","1","W">>, title |-> <<"P","r","i","d","e"," ","a","n","d"," ","P","r","e","j","u","d","i","c","e">>,
     author_name |-> << <<"J","a","n","e"," ","A","u","s","t","e","n">> >>, first_publish_year |-> 1813,
     publisher |-> << <<"T","."," ","E","g","e","r","t","o","n">> >>]
DocBare ==
    [tag |-> "doc", key |-> <<"/","w","o","r","k","s","/","O","L","2","W">>, title |-> Undefined,
     author_name |-> <<>>, first_publish_year |-> 0, publisher |-> <<>>]
DocNull == [tag |-> "null"]
DocEmma ==
    [tag |-> "doc", key |-> <<"/","w","o","r","k","s","/","O","L","3","W">>, title |-> <<"E","m","m","a">>,
     author_name |-> << <<"J","a","n","e"," ","A","u","s","t","e","n">> >>, first_publish_year |-> 1815, publisher |-> <<>>]
DocEmmaAnonymous ==
    [tag |-> "doc", key |-> <<"/","w","o","r","k","s","/","O","L","4","W">>, title |-> <<"E","M","M","A">>,
     author_name |-> <<>>, first_publish_year |-> 1816, publisher |-> <<>>]

OpenLibrarySearchResponses ==
    {NetFail, NotOk, BadBody}
    \cup {Ok([docs |-> l]) : l \in {<<>>, <<DocAusten, DocBare>>, <<DocBare>>, <<DocNull>>,
                                    <<DocEmmaAnonymous, DocEmma, DocAusten, DocEmma>>}}

\* first_publish_year?.toString(): 0 stands for a document without the field
yearOfDoc(doc) ==
    IF doc.first_publish_year = 0 THEN Undefined ELSE numToString(doc.first_publish_year)

searchOpenLibraryBestTry(query, resp) ==
    CASE resp.kind = "netfail" -> Fault
      [] resp.kind = "notok" -> Null
      [] resp.kind = "badbody" -> Fault
      [] OTHER ->
         IF resp.data.docs = <<>> THEN Null
         ELSE
         LET book == resp.data.docs[1]
         IN  IF book.tag = "null" THEN Fault
             ELSE [tag |-> "record",
                   authors |-> book.author_name,
                   title |-> OrElse(book.title, query),
                   siteName |-> OrElse(firstOf(book.publisher), <<"U","n","k","n","o","w","n"," ","P","u","b","l","i","s","h","e","r">>),
                   publisher |-> firstOf(book.publisher),
                   year |-> yearOfDoc(book),
                   month |-> Undefined,
                   day |-> Undefined,
                   url |-> <<"h","t","t","p","s",":","/","/","o","p","e","n","l","i","b","r","a","r","y",".","o","r","g">> \o templ(book.key),
                   accessDate |-> <<>>,
                   type |-> "book"]

searchOpenLibraryBest(query, resp) == catchNull(searchOpenLibraryBestTry(query, resp))

(***************************************************************************)
(* fetchers.ts: the searches that return a list of results for the picker. *)
(***************************************************************************)
List(items) == [tag |-> "list", items |-> items]

catchEmpty(r) == IF r = Fault THEN List(<<>>) ELSE r

\* the callback of data.items.map in searchGoogleBooks
googleSearchResult(item) ==
    LET info == item.volumeInfo
        field(f) == IF info.tag = "undefined" THEN Undefined ELSE info[f]
    IN  [tag |-> "result",
         id |-> <<"g","o","o","g","l","e","_">> \o item.id,
         title |-> OrElse(field("title"), <<"U","n","t","i","t","l","e","d">>),
         authors |-> IF info.tag = "undefined" THEN <<>> ELSE info.authors,
         year |-> leadingYear(field("publishedDate")),
         publisher |-> field("publisher"),
         type |-> "book",
         source |-> "google_books",
         raw |-> item]

searchGoogleBooksTry(query, resp) ==
    CASE resp.kind = "netfail" -> Fault
      [] resp.kind = "notok" -> List(<<>>)
      [] resp.kind = "badbody" -> Fault
      [] OTHER ->
         List([i \in 1..Len(resp.data.items) |-> googleSearchResult(resp.data.items[i])])

searchGoogleBooks(query, resp) == catchEmpty(searchGoogleBooksTry(query, resp))

\* the callback of data.docs.map in searchOpenLibrary
openLibrarySearchResult(doc) ==
    [tag |-> "result",
     id |-> <<"o","p","e","n","l","i","b","r","a","r","y","_">> \o templ(doc.key),
     title |-> OrElse(doc.title, <<"U","n","t","i","t","l","e","d">>),
     authors |-> doc.author_name,
     year |-> yearOfDoc(doc),
     publisher |-> firstOf(doc.publisher),
     type |-> "book",
     source |-> "openlibrary",
     raw |-> doc]

searchOpenLibraryTry(query, resp) ==
    CASE resp.kind = "netfail" -> Fault
      [] resp.kind = "notok" -> List(<<>>)
      [] resp.kind = "badbody" -> Fault
      [] OTHER ->
         IF \E i \in 1..Len(resp.data.docs) : resp.data.docs[i].tag = "null"
         THEN Fault
         ELSE List([i \in 1..Len(resp.data.docs) |-> openLibrarySearchResult(resp.data.docs[i])])

searchOpenLibrary(query, resp) == catchEmpty(searchOpenLibraryTry(query, resp))

\* results.some((r) => r.title.toLowerCase() === olResult.title.toLowerCase() && ...)
isDupe(results, olResult) ==
    \E i \in 1..Len(results) :
        /\ toLowerCase(results[i].title) = toLowerCase(olResult.title)
        /\ toLowerCase(firstOf(results[i].authors)) = toLowerCase(firstOf(olResult.authors))

RECURSIVE pushUnique(_, _)
\* for (const olResult of openLibResults) if (!isDupe) results.push(olResult)
pushUnique(results, openLibResults) ==
    IF openLibResults = <<>> THEN results
    ELSE pushUnique(IF isDupe(results, openLibResults[1]) THEN results
                    ELSE Append(results, openLibResults[1]),
                    Tail(openLibResults))

score(r) ==
    (IF Truthy(r.year) THEN 1 ELSE 0) + (IF Truthy(r.publisher) THEN 1 ELSE 0)
    + (IF Len(r.authors) > 0 THEN 1 ELSE 0)

\* results.sort((a, b) => scoreB - scoreA): the sort is stable
\* the comparator with its operands exchanged: scoreA - scoreB
sortByScoreAscending(results) ==
    LET scored(n) == SelectSeq(results, LAMBDA r : score(r) = n)
    IN  scored(0) \o scored(1) \o scored(2) \o scored(3)

sortByScore(results) ==
    LET scored(n) == SelectSeq(results, LAMBDA r : score(r) = n)
    IN  scored(3) \o scored(2) \o scored(1) \o scored(0)

slice(list, from, to) == SubSeq(list, from + 1, IF to < Len(list) THEN to ELSE Len(list))

\* searchAll, once both searches of Promise.all have returned
searchAll(googleResults, openLibResults) ==
    List(slice(sortByScore(pushUnique(googleResults.items, openLibResults.items)), 0, 10))

(***************************************************************************)
(* index.ts: the author formatters and the four style formatters.          *)
(***************************************************************************)
RECURSIVE split(_, _)
\* String.prototype.split on a one-character separator
split(s, c) ==
    LET at == {i \in 1..Len(s) : s[i] = c}
    IN  IF at = {} THEN <<s>>
        ELSE <<SubSeq(s, 1, MinOf(at) - 1)>> \o split(SubSeq(s, MinOf(at) + 1, Len(s)), c)

RECURSIVE join(_, _)
\* Array.prototype.join; an exception raised while the array was built goes through
join(list, sep) ==
    IF list = <<>> THEN <<>>
    ELSE IF Len(list) = 1 THEN list[1]
    ELSE cat(list[1], cat(sep, join(Tail(list), sep)))

RECURSIVE concat(_)
\* a template literal: its pieces, concatenated
concat(pieces) == IF pieces = <<>> THEN <<>> ELSE cat(pieces[1], concat(Tail(pieces)))

\* p[0].toUpperCase() + ".": p[0] of the empty string is undefined, and
\* calling toUpperCase on it throws a TypeError
initialOf(p) == IF p = <<>> THEN Thrown ELSE <<toUpperCaseChar(p[1]), ".">>

italic(text) == concat(<< <<"<","i",">">>, text, <<"<","/","i",">">> >>)

\* index.ts formatAuthorAPA: one name
indexAuthorAPAName(name) ==
    LET parts == split(name, " ")
    IN  IF Len(parts) = 1 THEN name
        ELSE LET lastName == parts[Len(parts)]
                 initials == join([i \in 1..(Len(parts) - 1) |-> initialOf(parts[i])], <<" ">>)
             IN  concat(<<lastName, <<","," ">>, initials>>)

indexFormatAuthorAPA(authors) ==
    IF authors = <<>> THEN <<"U","n","k","n","o","w","n">>
    ELSE join([i \in 1..Len(authors) |-> indexAuthorAPAName(authors[i])], <<","," ","&"," ">>)

indexFormatAuthorMLA(authors) ==
    IF authors = <<>> THEN <<"U","n","k","n","o","w","n">>
    ELSE
    LET parts == split(authors[1], " ")
        lastName == parts[Len(parts)]
        firstName == join(SubSeq(parts, 1, Len(parts) - 1), <<" ">>)
        firstAuthor == concat(<<lastName, <<","," ">>, firstName>>)
    IN  IF Len(authors) = 1
        THEN (IF Len(parts) = 1 THEN authors[1] ELSE firstAuthor)
        ELSE IF Len(authors) = 2 THEN concat(<<firstAuthor, <<","," ","a","n","d"," ">>, authors[2]>>)
        ELSE concat(<<firstAuthor, <<","," ","e","t"," ","a","l",".">>>>)

indexFormatAPA7(m) ==
    LET date == IF Truthy(m.year) THEN concat(<< <<"(">>, m.year, <<")">> >>) ELSE <<"(","n",".","d",".",")">>
    IN  CASE m.type = "encyclopedia" ->
               concat(<<templ(m.title), <<"."," ">>, date, <<"."," ","I","n"," ">>, italic(templ(m.siteName)),
                        <<"."," ","R","e","t","r","i","e","v","e","d"," ">>, m.accessDate, <<","," ","f","r","o","m"," ">>, m.url>>)
          [] m.type = "book" ->
               concat(<<IF Len(m.authors) > 0 THEN indexFormatAuthorAPA(m.authors) ELSE <<"U","n","k","n","o","w","n">>,
                        <<" ">>, date, <<"."," ">>, italic(templ(m.title)), <<"."," ">>,
                        OrElse(m.publisher, m.siteName), <<".">> >>)
          [] m.type = "video" ->
               concat(<<IF Len(m.authors) > 0 THEN join(m.authors, <<","," ">>) ELSE <<"U","n","k","n","o","w","n">>,
                        <<" ">>, date, <<"."," ">>, italic(templ(m.title)), <<" ","[","V","i","d","e","o","]","."," ">>,
                        m.siteName, <<"."," ">>, m.url>>)
          [] m.type = "article" ->
               concat(<<IF Len(m.authors) > 0 THEN indexFormatAuthorAPA(m.authors) ELSE <<"U","n","k","n","o","w","n">>,
                        <<" ">>, date, <<"."," ">>, templ(m.title), <<"."," ">>, italic(templ(m.siteName)),
                        <<"."," ">>, m.url>>)
          [] OTHER ->
               concat(<<IF Len(m.authors) > 0 THEN indexFormatAuthorAPA(m.authors) ELSE m.siteName,
                        <<" ">>, date, <<"."," ">>, italic(templ(m.title)), <<"."," ">>, m.siteName,
                        <<"."," ">>, m.url>>)

indexFormatMLA9(m, todayShort) ==
    LET author == IF Len(m.authors) > 0
                  THEN concat(<<indexFormatAuthorMLA(m.authors), <<"."," ">>>>) ELSE <<>>
        year == OrElse(m.year, <<"n",".","d",".">>)
    IN  CASE m.type = "encyclopedia" ->
               concat(<< <<"\"">>, m.title, <<".","\""," ">>, italic(m.siteName), <<","," ">>, year, <<","," ">>,
                         m.url, <<"."," ","A","c","c","e","s","s","e","d"," ">>, todayShort, <<".">> >>)
          [] m.type = "book" ->
               concat(<<author, italic(m.title), <<"."," ">>, OrElse(m.publisher, m.siteName),
                        <<","," ">>, year, <<".">> >>)
          [] OTHER ->
               concat(<<author, <<"\"">>, m.title, <<".","\""," ">>, italic(m.siteName), <<","," ">>, year,
                        <<","," ">>, m.url, <<"."," ","A","c","c","e","s","s","e","d"," ">>, todayShort, <<".">> >>)

indexFormatChicago(m) ==
    LET author == IF Len(m.authors) > 0
                  THEN concat(<<indexFormatAuthorMLA(m.authors), <<"."," ">>>>) ELSE <<>>
        year == OrElse(m.year, <<"n",".","d",".">>)
    IN  CASE m.type = "encyclopedia" ->
               concat(<<italic(m.siteName), <<"."," ","\"">>, m.title, <<".","\""," ","A","c","c","e","s","s","e","d"," ">>, m.accessDate,
                        <<"."," ">>, m.url, <<".">> >>)
          [] m.type = "book" ->
               concat(<<author, italic(m.title), <<"."," ">>, OrElse(m.publisher, m.siteName),
                        <<","," ">>, year, <<".">> >>)
          [] OTHER ->
               concat(<<author, <<"\"">>, m.title, <<".","\""," ">>, italic(m.siteName), <<","," ">>, year,
                        <<"."," ">>, m.url, <<".">> >>)

indexFormatHarvard(m) ==
    LET year == OrElse(m.year, <<"n",".","d",".">>)
        author == IF Len(m.authors) > 0 THEN indexFormatAuthorAPA(m.authors)
                  ELSE IF m.type \in {"book", "video", "article"} THEN <<"U","n","k","n","o","w","n">>
                  ELSE m.siteName
    IN  CASE m.type = "encyclopedia" ->
               concat(<<italic(m.siteName), <<" ","(">>, year, <<")"," ">>, m.title,
                        <<"."," ","A","v","a","i","l","a","b","l","e"," ","a","t",":"," ">>, m.url, <<" ","(","A","c","c","e","s","s","e","d",":"," ">>, m.accessDate, <<")",".">>>>)
          [] m.type = "book" ->
               concat(<<author, <<" ","(">>, year, <<")"," ">>, italic(m.title), <<"."," ">>,
                        OrElse(m.publisher, m.siteName), <<".">> >>)
          [] m.type = "video" ->
               concat(<<author, <<" ","(">>, year, <<")"," ">>, italic(m.title),
                        <<" ","[","V","i","d","e","o","]","."," ","A","v","a","i","l","a","b","l","e"," ","a","t",":"," ">>, m.url, <<" ","(","A","c","c","e","s","s","e","d",":"," ">>, m.accessDate,
                        <<")",".">>>>)
          [] m.type = "article" ->
               concat(<<author, <<" ","(">>, year, <<")"," ">>, m.title, <<"."," ">>, italic(m.siteName),
                        <<"."," ","A","v","a","i","l","a","b","l","e"," ","a","t",":"," ">>, m.url, <<" ","(","A","c","c","e","s","s","e","d",":"," ">>, m.accessDate, <<")",".">>>>)
          [] OTHER ->
               concat(<<author, <<" ","(">>, year, <<")"," ">>, italic(m.title), <<","," ">>, m.siteName,
                        <<"."," ","A","v","a","i","l","a","b","l","e"," ","a","t",":"," ">>, m.url, <<" ","(","A","c","c","e","s","s","e","d",":"," ">>, m.accessDate, <<")",".">>>>)

\* a JSON value of a response body
JStr(s) == [t |-> "string", v |-> s]
JNum(n) == [t |-> "number", v |-> n]
\* JavaScript truthiness of a JSON value
truthyJSON(x) == IF x.t = "string" THEN x.v # <<>> ELSE x.v # 0

\* index.ts formatAllCitations: the object literal, or Fault when one of the
\* four calls throws
indexFormatAllCitations(meta, todayShort) ==
    LET apa7 == indexFormatAPA7(meta)
        mla9 == indexFormatMLA9(meta, todayShort)
        chicago == indexFormatChicago(meta)
        harvard == indexFormatHarvard(meta)
    IN  IF Thrown \in {apa7, mla9, chicago, harvard} THEN Fault
        ELSE [apa7 |-> JStr(apa7), mla9 |-> JStr(mla9),
              chicago |-> JStr(chicago), harvard |-> JStr(harvard)]

(***************************************************************************)
(* lib/authors.ts and lib/formatters.ts: the formatters as a library.      *)
(***************************************************************************)
\* lib/authors.ts formatAuthorAPA; the callback of authors.map is that of index.ts
formatAuthorAPA(authors) ==
    IF authors = <<>> THEN <<"U","n","k","n","o","w","n">>
    ELSE
    LET formatted == [i \in 1..Len(authors) |-> indexAuthorAPAName(authors[i])]
        n == Len(formatted)
    IN  IF n = 1 THEN formatted[1]
        ELSE IF n = 2 THEN concat(<<formatted[1], <<","," ","&"," ">>, formatted[2]>>)
        ELSE concat(<<join(SubSeq(formatted, 1, n - 1), <<","," ">>), <<","," ","&"," ">>, formatted[n]>>)

\* lib/authors.ts formatAuthorMLA
formatAuthorMLA(authors) ==
    IF authors = <<>> THEN <<"U","n","k","n","o","w","n">>
    ELSE IF Len(authors) = 1
    THEN LET parts == split(authors[1], " ")
             lastName == parts[Len(parts)]
             firstName == join(SubSeq(parts, 1, Len(parts) - 1), <<" ">>)
         IN  IF Len(parts) = 1 THEN authors[1]
             ELSE concat(<<lastName, <<","," ">>, firstName>>)
    ELSE LET parts == split(authors[1], " ")
             lastName == parts[Len(parts)]
             firstName == join(SubSeq(parts, 1, Len(parts) - 1), <<" ">>)
             firstAuthor == concat(<<lastName, <<","," ">>, firstName>>)
         IN  IF Len(authors) = 2 THEN concat(<<firstAuthor, <<","," ","a","n","d"," ">>, authors[2]>>)
             ELSE concat(<<firstAuthor, <<","," ","e","t"," ","a","l",".">>>>)

\* lib/formatters.ts formatAPA7
formatAPA7(m) ==
    LET date == IF Truthy(m.year) THEN concat(<<<<"(">>, m.year, <<")">>>>) ELSE <<"(","n",".","d",".",")">>
    IN  CASE m.type = "encyclopedia" ->
               concat(<<m.title, <<"."," ">>, date, <<"."," ","I","n"," ">>, italic(m.siteName),
                        <<"."," ","R","e","t","r","i","e","v","e","d"," ">>, m.accessDate, <<","," ","f","r","o","m"," ">>, m.url>>)
          [] m.type = "book" ->
               LET author == IF Len(m.authors) > 0 THEN formatAuthorAPA(m.authors) ELSE <<"U","n","k","n","o","w","n">>
               IN  concat(<<author, <<"."," ">>, date, <<"."," ">>, italic(m.title), <<"."," ">>,
                            OrElse(m.publisher, m.siteName), <<".">>>>)
          [] m.type = "video" ->
               LET author == IF Len(m.authors) > 0 THEN join(m.authors, <<","," ">>) ELSE <<"U","n","k","n","o","w","n">>
               IN  concat(<<author, <<"."," ">>, date, <<"."," ">>, italic(m.title), <<" ","[","V","i","d","e","o","]","."," ">>,
                            m.siteName, <<"."," ">>, m.url>>)
          [] m.type = "article" ->
               LET author == IF Len(m.authors) > 0 THEN formatAuthorAPA(m.authors) ELSE <<"U","n","k","n","o","w","n">>
               IN  concat(<<author, <<"."," ">>, date, <<"."," ">>, m.title, <<"."," ">>, italic(m.siteName),
                            <<"."," ">>, m.url>>)
          [] OTHER ->
               LET author == IF Len(m.authors) > 0 THEN formatAuthorAPA(m.authors) ELSE m.siteName
               IN  IF author = Thrown THEN Thrown
                   ELSE IF Len(m.authors) = 0 \/ toLowerCase(author) = toLowerCase(m.siteName)
                   THEN concat(<<author, <<"."," ">>, date, <<"."," ">>, italic(m.title), <<"."," ">>, m.url>>)
                   ELSE concat(<<author, <<"."," ">>, date, <<"."," ">>, italic(m.title), <<"."," ">>,
                                 m.siteName, <<"."," ">>, m.url>>)

\* lib/formatters.ts formatMLA9
formatMLA9(m, short) ==
    LET year == OrElse(m.year, <<"n",".","d",".">>)
        author == IF Len(m.authors) > 0
                  THEN concat(<<formatAuthorMLA(m.authors), <<"."," ">>>>) ELSE <<>>
        titled == concat(<<<<"\"">>, m.title, <<".","\""," ">>, italic(m.siteName), <<","," ">>, year, <<","," ">>,
                           m.url, <<"."," ","A","c","c","e","s","s","e","d"," ">>, short, <<".">>>>)
    IN  CASE m.type = "encyclopedia" -> titled
          [] m.type = "book" ->
               concat(<<author, italic(m.title), <<"."," ">>, OrElse(m.publisher, m.siteName),
                        <<","," ">>, year, <<".">>>>)
          [] m.type \in {"video", "article"} -> concat(<<author, titled>>)
          [] OTHER ->
               IF Len(m.authors) = 0 THEN titled
               ELSE concat(<<formatAuthorMLA(m.authors), <<"."," ">>, titled>>)

\* lib/formatters.ts formatChicago
formatChicago(m) ==
    LET year == OrElse(m.year, <<"n",".","d",".">>)
        author == IF Len(m.authors) > 0
                  THEN concat(<<formatAuthorMLA(m.authors), <<"."," ">>>>) ELSE <<>>
    IN  CASE m.type = "encyclopedia" ->
               concat(<<italic(m.siteName), <<"."," ","\"">>, m.title, <<".","\""," ","A","c","c","e","s","s","e","d"," ">>, m.accessDate,
                        <<"."," ">>, m.url, <<".">>>>)
          [] m.type = "book" ->
               concat(<<author, italic(m.title), <<"."," ">>, OrElse(m.publisher, m.siteName),
                        <<","," ">>, year, <<".">>>>)
          [] m.type = "article" ->
               concat(<<author, <<"\"">>, m.title, <<".","\""," ">>, italic(m.siteName), <<","," ">>, year,
                        <<"."," ">>, m.url, <<".">>>>)
          [] OTHER ->
               IF Len(m.authors) = 0
               THEN concat(<<<<"\"">>, m.title, <<".","\""," ">>, italic(m.siteName), <<"."," ","A","c","c","e","s","s","e","d"," ">>,
                             m.accessDate, <<"."," ">>, m.url, <<".">>>>)
               ELSE concat(<<formatAuthorMLA(m.authors), <<"."," ">>, <<"\"">>, m.title, <<".","\""," ">>,
                             italic(m.siteName), <<","," ">>, year, <<"."," ">>, m.url, <<".">>>>)

\* formatHarvard with "Unknown" for a website without authors, as for the other types
formatHarvardUnknown(m) ==
    LET year == OrElse(m.year, <<"n",".","d",".">>)
        available == concat(<<<<"A","v","a","i","l","a","b","l","e"," ","a","t",":"," ">>, m.url, <<" ","(","A","c","c","e","s","s","e","d",":"," ">>, m.accessDate, <<")",".">>>>)
        authorOr(none) == IF Len(m.authors) > 0 THEN formatAuthorAPA(m.authors) ELSE none
    IN  CASE m.type = "encyclopedia" ->
               concat(<<italic(m.siteName), <<" ","(">>, year, <<")"," ">>, m.title, <<"."," ">>, available>>)
          [] m.type = "book" ->
               concat(<<authorOr(<<"U","n","k","n","o","w","n">>), <<" ","(">>, year, <<")"," ">>, italic(m.title), <<"."," ">>,
                        OrElse(m.publisher, m.siteName), <<".">>>>)
          [] m.type = "video" ->
               concat(<<authorOr(<<"U","n","k","n","o","w","n">>), <<" ","(">>, year, <<")"," ">>, italic(m.title),
                        <<" ","[","V","i","d","e","o","]","."," ">>, available>>)
          [] m.type = "article" ->
               concat(<<authorOr(<<"U","n","k","n","o","w","n">>), <<" ","(">>, year, <<")"," ">>, m.title, <<"."," ">>,
                        italic(m.siteName), <<"."," ">>, available>>)
          [] OTHER ->
               IF Len(m.authors) = 0
               THEN concat(<<authorOr(<<"U","n","k","n","o","w","n">>), <<" ","(">>, year, <<")"," ">>, italic(m.title), <<"."," ">>,
                             available>>)
               ELSE concat(<<authorOr(m.siteName), <<" ","(">>, year, <<")"," ">>, italic(m.title), <<","," ">>,
                             m.siteName, <<"."," ">>, available>>)

\* lib/formatters.ts formatHarvard
formatHarvard(m) ==
    LET year == OrElse(m.year, <<"n",".","d",".">>)
        available == concat(<<<<"A","v","a","i","l","a","b","l","e"," ","a","t",":"," ">>, m.url, <<" ","(","A","c","c","e","s","s","e","d",":"," ">>, m.accessDate, <<")",".">>>>)
        authorOr(none) == IF Len(m.authors) > 0 THEN formatAuthorAPA(m.authors) ELSE none
    IN  CASE m.type = "encyclopedia" ->
               concat(<<italic(m.siteName), <<" ","(">>, year, <<")"," ">>, m.title, <<"."," ">>, available>>)
          [] m.type = "book" ->
               concat(<<authorOr(<<"U","n","k","n","o","w","n">>), <<" ","(">>, year, <<")"," ">>, italic(m.title), <<"."," ">>,
                        OrElse(m.publisher, m.siteName), <<".">>>>)
          [] m.type = "video" ->
               concat(<<authorOr(<<"U","n","k","n","o","w","n">>), <<" ","(">>, year, <<")"," ">>, italic(m.title),
                        <<" ","[","V","i","d","e","o","]","."," ">>, available>>)
          [] m.type = "article" ->
               concat(<<authorOr(<<"U","n","k","n","o","w","n">>), <<" ","(">>, year, <<")"," ">>, m.title, <<"."," ">>,
                        italic(m.siteName), <<"."," ">>, available>>)
          [] OTHER ->
               IF Len(m.authors) = 0
               THEN concat(<<authorOr(m.siteName), <<" ","(">>, year, <<")"," ">>, italic(m.title), <<"."," ">>,
                             available>>)
               ELSE concat(<<authorOr(m.siteName), <<" ","(">>, year, <<")"," ">>, italic(m.title), <<","," ">>,
                             m.siteName, <<"."," ">>, available>>)

\* lib/formatters.ts formatAllCitations: the object literal, or Fault when one
\* of the four calls throws
formatAllCitations(meta, short) ==
    LET apa7 == formatAPA7(meta)
        mla9 == formatMLA9(meta, short)
        chicago == formatChicago(meta)
        harvard == formatHarvard(meta)
    IN  IF Thrown \in {apa7, mla9, chicago, harvard} THEN Fault
        ELSE [apa7 |-> JStr(apa7), mla9 |-> JStr(mla9),
              chicago |-> JStr(chicago), harvard |-> JStr(harvard)]

(***************************************************************************)
(* index.ts: the Gemini fallback.  The model's answer is opaque: the call  *)
(* fails, or it yields a text without a {...} part, with one that is not   *)
(* JSON, or with one that parses to the object `obj`.                      *)
(***************************************************************************)
GeminiObjects ==
    { [apa7 |-> JStr(<<"A">>), mla9 |-> JStr(<<"M">>), chicago |-> JStr(<<"C">>), harvard |-> JStr(<<"H">>)],
      [error |-> JStr(<<"C","o","u","l","d"," ","n","o","t"," ","f","i","n","d"," ","a","c","c","u","r","a","t","e"," ","c","i","t","a","t","i","o","n"," ","d","a","t","a">>)],
      [error |-> JStr(<<>>)],
      [apa7 |-> JStr(<<"A">>)],
      [apa7 |-> JNum(1), mla9 |-> JStr(<<"M">>), chicago |-> JStr(<<"C">>), harvard |-> JStr(<<"H">>)],
      [apa7 |-> JStr(<<"A">>), mla9 |-> JStr(<<"M">>), chicago |-> JStr(<<"C">>), harvard |-> JStr(<<"H">>),
       note |-> JStr(<<"N">>)] }

GeminiOutputs ==
    {[kind |-> "apifail"], [kind |-> "text", json |-> "none"], [kind |-> "text", json |-> "invalid"]}
    \cup {[kind |-> "text", json |-> "object", obj |-> o] : o \in GeminiObjects}

\* generateWithGemini without if (parsed.error) throw new Error(parsed.error)
generateWithGeminiNoErrorCheck(src, todayLong, out) ==
    CASE out.kind = "apifail" -> Fault
      [] out.json = "none" -> Fault
      [] out.json = "invalid" -> Fault
      [] OTHER -> out.obj

generateWithGemini(src, todayLong, out) ==
    CASE out.kind = "apifail" -> Fault
      [] out.json = "none" -> Fault
      [] out.json = "invalid" -> Fault
      [] OTHER ->
         IF "error" \in DOMAIN out.obj /\ truthyJSON(out.obj.error) THEN Fault
         ELSE out.obj

(***************************************************************************)
(* The requests.                                                           *)
(***************************************************************************)
Pad(n) == [i \in 1..n |-> " "]
Pads == {Pad(n) : n \in 0..MaxPad}
Schemes == {<<>>, <<"h","t","t","p",":","/","/">>, <<"h","t","t","p","s",":","/","/">>, <<"H","T","T","P","S",":","/","/">>}
Hosts ==
    {<<>>, <<"d","o","i",".","o","r","g","/">>, <<"d","x",".","d","o","i",".","o","r","g","/">>, <<"D","O","I",".","O","R","G","/">>, <<"y","o","u","t","u",".","b","e","/">>, <<"w","w","w",".","y","o","u","t","u","b","e",".","c","o","m","/">>,
     <<"e","n",".","w","i","k","i","p","e","d","i","a",".","o","r","g","/","w","i","k","i","/">>, <<"w","w","w",".","e","x","a","m","p","l","e",".","c","o","m","/">>}
Tails ==
    {<<>>, <<"1","0",".","1","0","0","0","/","x","y","z","1","2","3">>, <<"9","7","8","-","0","-","1","3","-","4","6","8","5","9","9","-","1">>, <<"0","1","3","4","6","8","5","9","9","1">>, <<"1","2","3","4","5">>,
     <<"P","r","i","d","e"," ","a","n","d"," ","P","r","e","j","u","d","i","c","e">>, <<"A","_","B","%","2","8","c","%","2","9","#","t","o","p">>, <<"%","E","0","%","A","4","%","A">>}
\* the strings a request may carry as its source
Sources ==
    {pre \o sch \o host \o tail \o post :
        pre \in Pads, sch \in Schemes, host \in Hosts, tail \in Tails, post \in Pads}

\* the inputs of Sources that fetchISBNMetadata is called for
ISBNSources == {s \in Sources : detectInputType(s) = "isbn"}
\* the queries searchAll is called with
Queries == {<<"P","r","i","d","e"," ","a","n","d"," ","P","r","e","j","u","d","i","c","e">>, <<"E","m","m","a">>}

\* const { source } before the destructuring has run
Unassigned == [t |-> "unassigned"]
JUndefined == [t |-> "undefined"]
JNull == [t |-> "null"]
\* the bodies c.req.json() may meet: one that does not parse, or an object
\* whose source is absent, null, a number or a string
Requests ==
    {[kind |-> "malformed"]}
    \cup {[kind |-> "object", source |-> v] :
             v \in {JUndefined, JNull, JNum(42)} \cup {JStr(s) : s \in Sources}}

\* source == null in place of !source
falsyNullish(v) == v.t \in {"undefined", "null"}

\* !source
falsy(v) == v.t \in {"undefined", "null"} \/ (v.t \in {"string", "number"} /\ ~truthyJSON(v))

\* new Date().toLocaleDateString(locale, ...) on the given day, counted from
\* November 1, 2026
toLocaleDateString(day, locale) ==
    IF locale = "en-US" THEN <<"N","o","v","e","m","b","e","r"," ">> \o numToString(1 + day) \o <<","," ","2","0","2","6">>
    ELSE numToString(1 + day) \o <<" ","N","o","v"," ","2","0","2","6">>

\* the author lists formatAllCitations is called with
AuthorLists ==
    { <<>>, << <<"P","l","a","t","o">> >>, << <<"J","a","n","e"," ","M","a","r","y"," ","D","o","e">> >>, << <<"S","m","i","t","h",","," ","J","o","h","n">> >>, << <<"J","a","n","e"," "," ","A","u","s","t","e","n">> >>,
      << <<"A"," ","B">>, <<"C"," ","D">> >>, << <<"P","l","a","t","o">>, <<"J","a","n","e"," ","D","o","e">> >>,
      << <<"J","a","n","e"," ","D","o","e">>, <<"J","o","h","n"," ","R","o","e">>, <<"A","n","n"," ","P","o","e">> >> }
\* the records formatAllCitations is called with; year, month and day of a
\* record: none, the year alone, or all three
Records ==
    LET RecordDates ==
            { [year |-> Undefined, month |-> Undefined, day |-> Undefined],
              [year |-> <<"2","0","2","0">>, month |-> Undefined, day |-> Undefined],
              [year |-> <<"2","0","2","0">>, month |-> <<"M","a","r","c","h">>, day |-> <<"5">>] }
    IN
    { [tag |-> "record", authors |-> a, title |-> <<"A"," ","S","t","u","d","y">>, siteName |-> <<"J","o","u","r","n","a","l"," ","X">>,
       publisher |-> p, year |-> d.year, month |-> d.month, day |-> d.day,
       url |-> <<"h","t","t","p","s",":","/","/","d","o","i",".","o","r","g","/","1","0",".","1","0","0","0","/","1","8","2">>, accessDate |-> toLocaleDateString(0, "en-US"), type |-> t] :
      a \in AuthorLists, p \in {Undefined, <<"A","C","M","E">>}, d \in RecordDates, t \in SourceTypes }

NoResponse == [status |-> 0]
InputError == [status |-> 400, error |-> "No source provided"]
GenericError == [status |-> 500, error |-> "Failed to generate citation"]
Success(citations) == [status |-> 200, citations |-> citations]

(***************************************************************************)
(* The state.                                                              *)
(***************************************************************************)
VARIABLES
    pc,          \* where the handler of the request stands
    source,      \* the source destructured from the request body
    today,       \* const today
    todayShort,  \* const todayShort
    sourceType,  \* const sourceType, "none" before it is set
    metadata,    \* let metadata
    calls,       \* the functions invoked so far, in order
    results,     \* what searchAll returned, Null before
    settled,     \* what Promise.all resolved to in fetchers.ts, <<>> before
    formatted,   \* what formatAllCitations of lib/formatters.ts returned, Null before
    clock,       \* the day new Date() falls on, counted from the day of Init
    inflight,    \* the argument of the function awaiting Promise.all and the branches
                 \* (1 = Google Books, 2 = Open Library) that have not settled yet
    other,       \* the local variables of a second invocation of the handler, which
                 \* waits while the event loop runs this one
    response     \* the response sent, NoResponse before

vars == <<pc, source, today, todayShort, sourceType, metadata, calls, results, settled, formatted,
          clock, inflight, other, response>>

Init ==
    /\ pc = "idle"
    /\ source = Unassigned
    /\ today = <<>>
    /\ todayShort = <<>>
    /\ sourceType = "none"
    /\ metadata = Null
    /\ calls = <<>>
    /\ results = Null
    /\ settled = <<>>
    /\ formatted = Null
    /\ clock = 0
    /\ inflight = [arg |-> <<>>, pending |-> {}]
    /\ other = [pc |-> "idle", source |-> Unassigned, today |-> <<>>, todayShort |-> <<>>,
                sourceType |-> "none", metadata |-> Null, calls |-> <<>>, response |-> NoResponse]
    /\ response = NoResponse

\* one entry of calls
Call(fn, arg, resp, ret) == [fn |-> fn, arg |-> arg, resp |-> resp, ret |-> ret]

\* } catch (error) { return c.json({ error: "Failed to generate citation" }, 500); }
CatchAll ==
    /\ response' = GenericError
    /\ pc' = "done"

\* const { source } = await c.req.json();
ReceiveRequest ==
    /\ pc = "idle"
    /\ \E req \in Requests :
          IF req.kind = "malformed"
          THEN CatchAll /\ UNCHANGED <<source, today, todayShort, sourceType, metadata, calls, results, other, inflight, clock, formatted, settled>>
          ELSE /\ source' = req.source
               /\ pc' = "validate"
               /\ UNCHANGED <<today, todayShort, sourceType, metadata, calls, results, other, inflight, clock, formatted, settled, response>>

\* if (!source) return ...; const today = ...; const todayShort = ...;
Validate ==
    /\ pc = "validate"
    /\ IF falsy(source)
       THEN /\ response' = InputError
            /\ pc' = "done"
            /\ UNCHANGED <<today, todayShort>>
       ELSE /\ today' = toLocaleDateString(clock, "en-US")
            /\ todayShort' = toLocaleDateString(clock, "en-GB")
            /\ pc' = "classify"
            /\ UNCHANGED response
    /\ UNCHANGED <<source, sourceType, metadata, calls, results, other, inflight, clock, formatted, settled>>

\* const sourceType = detectSourceType(source); a source that is no string
\* has no trim method
Classify ==
    /\ pc = "classify"
    /\ IF source.t # "string"
       THEN /\ calls' = Append(calls, Call("detectSourceType", <<>>, "none", "throw"))
            /\ CatchAll
            /\ UNCHANGED sourceType
       ELSE /\ sourceType' = detectSourceType(source.v)
            /\ calls' = Append(calls, Call("detectSourceType", source.v, "none", sourceType'))
            /\ pc' = "dispatch"
            /\ UNCHANGED response
    /\ UNCHANGED <<source, today, todayShort, metadata, results, other, inflight, clock, formatted, settled>>

\* the switch with the bodies of case "youtube" and case "wikipedia" exchanged
switchCaseExchanged(type) ==
    CASE type = "doi" -> "fetchDOIMetadata"
      [] type = "isbn" -> "fetchISBNMetadata"
      [] type = "youtube" -> "fetchWikipediaMetadata"
      [] type = "wikipedia" -> "fetchYouTubeMetadata"
      [] type = "url" -> "fetchURLMetadata"
      [] type = "text" -> "searchGoogleBooks"

\* switch (sourceType): the function the case calls first
switchCase(type) ==
    CASE type = "doi" -> "fetchDOIMetadata"
      [] type = "isbn" -> "fetchISBNMetadata"
      [] type = "youtube" -> "fetchYouTubeMetadata"
      [] type = "wikipedia" -> "fetchWikipediaMetadata"
      [] type = "url" -> "fetchURLMetadata"
      [] type = "text" -> "searchGoogleBooks"

\* metadata = await fn(source), answered resp, returned r: the handler goes
\* on at nextPc, or to its catch when the call threw
Returned(fn, arg, resp, r, nextPc) ==
    /\ calls' = Append(calls, Call(fn, arg, resp.kind, r.tag))
    /\ IF r = Fault
       THEN CatchAll /\ UNCHANGED metadata
       ELSE metadata' = r /\ pc' = nextPc /\ UNCHANGED response
    /\ UNCHANGED <<source, today, todayShort, sourceType, results, other, inflight, clock, formatted, settled>>

NoNetwork == [kind |-> "none"]

FetchDOI ==
    /\ pc = "dispatch" /\ switchCase(sourceType) = "fetchDOIMetadata"
    /\ \E resp \in CrossRefResponses :
          Returned("fetchDOIMetadata", source.v, resp, fetchDOIMetadata(source.v, resp), "resolve")

\* index.ts fetchISBNMetadata: const googleResult = await searchGoogleBooksByISBN(isbn);
\* if (googleResult) return googleResult;
FetchISBNGoogle ==
    /\ pc = "dispatch" /\ switchCase(sourceType) = "fetchISBNMetadata"
    /\ \E resp \in GoogleISBNResponses :
          LET r == fetchGoogleBooksByISBN(removeHyphensAndSpaces(source.v), resp)
          IN  Returned("fetchISBNMetadata", source.v, resp, r,
                       IF r = Null THEN "isbn_fallback" ELSE "resolve")

\* index.ts fetchISBNMetadata: return await fetchOpenLibraryByISBN(isbn);
FetchISBNOpenLibrary ==
    /\ pc = "isbn_fallback"
    /\ \E resp \in OpenLibraryISBNResponses :
          Returned("fetchOpenLibraryByISBN", source.v, resp,
                   fetchOpenLibraryByISBN(removeHyphensAndSpaces(source.v), resp), "resolve")

FetchYouTube ==
    /\ pc = "dispatch" /\ switchCase(sourceType) = "fetchYouTubeMetadata"
    /\ \E resp \in YouTubeResponses :
          Returned("fetchYouTubeMetadata", source.v, resp,
                   fetchYouTubeMetadata(source.v, resp), "resolve")

FetchWikipedia ==
    /\ pc = "dispatch" /\ switchCase(sourceType) = "fetchWikipediaMetadata"
    /\ Returned("fetchWikipediaMetadata", source.v, NoNetwork,
                fetchWikipediaMetadata(source.v), "resolve")

FetchURL ==
    /\ pc = "dispatch" /\ switchCase(sourceType) = "fetchURLMetadata"
    /\ \E resp \in PageResponses :
          Returned("fetchURLMetadata", source.v, resp, fetchURLMetadata(source.v, resp), "resolve")

\* case "text" without if (!metadata) in front of the second lookup
SearchGoogleBooksTextThenAlways ==
    /\ pc = "dispatch" /\ switchCase(sourceType) = "searchGoogleBooks"
    /\ \E resp \in GoogleSearchResponses :
          Returned("searchGoogleBooks", source.v, resp, searchGoogleBooksBest(source.v, resp),
                   "text_fallback")

\* case "text": metadata = await searchGoogleBooks(source);
SearchGoogleBooksText ==
    /\ pc = "dispatch" /\ switchCase(sourceType) = "searchGoogleBooks"
    /\ \E resp \in GoogleSearchResponses :
          LET r == searchGoogleBooksBest(source.v, resp)
          IN  Returned("searchGoogleBooks", source.v, resp, r,
                       IF r = Null THEN "text_fallback" ELSE "resolve")

\* if (!metadata) metadata = await searchOpenLibrary(source);
SearchOpenLibraryText ==
    /\ pc = "text_fallback"
    /\ \E resp \in OpenLibrarySearchResponses :
          Returned("searchOpenLibrary", source.v, resp,
                   searchOpenLibraryBest(source.v, resp), "resolve")

\* if (metadata) { metadata.accessDate = today; ... return c.json({ citations }); }
FormatCitations ==
    /\ pc = "resolve" /\ metadata # Null
    /\ metadata' = [metadata EXCEPT !.accessDate = today]
    /\ LET citations == indexFormatAllCitations(metadata', todayShort)
       IN  /\ calls' = Append(calls, Call("formatAllCitations", <<>>, "none",
                                          IF citations = Fault THEN "throw" ELSE "object"))
           /\ response' = IF citations = Fault THEN GenericError ELSE Success(citations)
    /\ pc' = "done"
    /\ UNCHANGED <<source, today, todayShort, sourceType, results, other, inflight, clock, formatted, settled>>

\* the fallback without if (metadata) { ... return ... } in front of it: it runs
\* whether or not there is a record
FallBackToGeminiAlways ==
    /\ pc = "resolve"
    /\ \E out \in GeminiOutputs :
          LET citations == generateWithGemini(source.v, today, out)
          IN  /\ calls' = Append(calls, Call("generateWithGemini", source.v, out,
                                             IF citations = Fault THEN "throw" ELSE "object"))
              /\ response' = IF citations = Fault THEN GenericError ELSE Success(citations)
    /\ pc' = "done"
    /\ UNCHANGED <<source, today, todayShort, sourceType, metadata, results, other, inflight, clock, formatted, settled>>

\* const citations = await generateWithGemini(source, today, ...); return c.json({ citations });
FallBackToGemini ==
    /\ pc = "resolve" /\ metadata = Null
    /\ \E out \in GeminiOutputs :
          LET citations == generateWithGemini(source.v, today, out)
          IN  /\ calls' = Append(calls, Call("generateWithGemini", source.v, out,
                                             IF citations = Fault THEN "throw" ELSE "object"))
              /\ response' = IF citations = Fault THEN GenericError ELSE Success(citations)
    /\ pc' = "done"
    /\ UNCHANGED <<source, today, todayShort, sourceType, metadata, results, other, inflight, clock, formatted, settled>>

\* the tag a list goes by in calls
listTag(r) == IF r = Fault THEN "throw" ELSE IF r.items = <<>> THEN "empty" ELSE "list"

\* fetchers.ts fetchISBNMetadata(source) and searchAll(query) up to their await:
\* Promise.all([...]) starts the Google Books call and the Open Library call
PromiseAll ==
    /\ pc = "idle"
    /\ \/ \E s \in ISBNSources : pc' = "isbn_all" /\ inflight' = [arg |-> s, pending |-> {1, 2}]
       \/ \E query \in Queries : pc' = "search_all" /\ inflight' = [arg |-> query, pending |-> {1, 2}]
    /\ calls' = <<>>
    /\ settled' = <<[tag |-> "pending"], [tag |-> "pending"]>>
    /\ UNCHANGED <<source, today, todayShort, sourceType, metadata, results, other, formatted, clock, response>>

\* one of the two promises handed to Promise.all settles; neither reads what
\* the other writes
BranchSettles ==
    /\ pc \in {"isbn_all", "search_all"}
    /\ \E b \in inflight.pending :
          /\ inflight' = [inflight EXCEPT !.pending = @ \ {b}]
          /\ IF pc = "isbn_all"
             THEN LET isbn == extractISBN(inflight.arg)
                  IN  IF b = 1
                      THEN \E g \in GoogleISBNResponses :
                              LET googleResult == fetchGoogleBooksByISBN(isbn, g)
                              IN  /\ settled' = [settled EXCEPT ![1] = googleResult]
                                  /\ calls' = Append(calls, Call("fetchGoogleBooksByISBN", isbn,
                                                                 g.kind, googleResult.tag))
                      ELSE \E o \in OpenLibraryISBNResponses :
                              LET openLibResult == fetchOpenLibraryByISBN(isbn, o)
                              IN  /\ settled' = [settled EXCEPT ![2] = openLibResult]
                                  /\ calls' = Append(calls, Call("fetchOpenLibraryByISBN", isbn,
                                                                 o.kind, openLibResult.tag))
             ELSE IF b = 1
                  THEN \E g \in GoogleSearchResponses :
                          LET googleResults == searchGoogleBooks(inflight.arg, g)
                          IN  /\ settled' = [settled EXCEPT ![1] = googleResults]
                              /\ calls' = Append(calls, Call("fetchers.searchGoogleBooks", inflight.arg,
                                                             g.kind, listTag(googleResults)))
                  ELSE \E o \in OpenLibrarySearchResponses :
                          LET openLibResults == searchOpenLibrary(inflight.arg, o)
                          IN  /\ settled' = [settled EXCEPT ![2] = openLibResults]
                              /\ calls' = Append(calls, Call("fetchers.searchOpenLibrary", inflight.arg,
                                                             o.kind, listTag(openLibResults)))
    /\ UNCHANGED <<pc, source, today, todayShort, sourceType, metadata, results, other, formatted, clock, response>>

\* fetchISBNMetadata with Promise.race in place of Promise.all: it goes on as
\* soon as one branch has settled and takes the other for null
FetchISBNBothRace ==
    /\ pc = "isbn_all" /\ Cardinality(inflight.pending) <= 1
    /\ LET googleResult == IF 1 \in inflight.pending THEN Null ELSE settled[1]
           openLibResult == IF 2 \in inflight.pending THEN Null ELSE settled[2]
           r == mergeISBN(googleResult, openLibResult)
       IN  /\ calls' = Append(calls, Call("fetchers.fetchISBNMetadata", inflight.arg, "none", r.tag))
           /\ metadata' = r
    /\ pc' = "returned"
    /\ UNCHANGED <<source, today, todayShort, sourceType, results, other, inflight, settled, formatted, clock, response>>

\* fetchers.ts fetchISBNMetadata(source) after its await: Promise.all has
\* resolved to [googleResult, openLibResult]
FetchISBNBoth ==
    /\ pc = "isbn_all" /\ inflight.pending = {}
    /\ LET googleResult == settled[1]
           openLibResult == settled[2]
           r == IF Fault \in {googleResult, openLibResult} THEN Fault
                ELSE mergeISBN(googleResult, openLibResult)
       IN  /\ calls' = Append(calls, Call("fetchers.fetchISBNMetadata", inflight.arg, "none", r.tag))
           /\ metadata' = r
    /\ pc' = "returned"
    /\ UNCHANGED <<source, today, todayShort, sourceType, results, other, inflight, settled, formatted, clock, response>>

\* fetchers.ts searchAll(query) after its await
SearchAll ==
    /\ pc = "search_all" /\ inflight.pending = {}
    /\ LET googleResults == settled[1]
           openLibResults == settled[2]
           r == IF Fault \in {googleResults, openLibResults} THEN Fault
                ELSE searchAll(googleResults, openLibResults)
       IN  /\ calls' = Append(calls, Call("searchAll", inflight.arg, "none", listTag(r)))
           /\ results' = r
    /\ pc' = "returned"
    /\ UNCHANGED <<source, today, todayShort, sourceType, metadata, inflight, settled, formatted, clock, other, response>>

\* fetchers.ts getUrlFromResult(result)
getUrlFromResult(result) ==
    IF result.source = "google_books"
    THEN OrElse(IF result.raw.volumeInfo.tag = "undefined" THEN Undefined
                ELSE result.raw.volumeInfo.infoLink,
                <<"h","t","t","p","s",":","/","/","b","o","o","k","s",".","g","o","o","g","l","e",".","c","o","m","/","b","o","o","k","s","?","i","d","=">> \o templ(result.raw.id))
    ELSE IF result.source = "openlibrary"
    THEN <<"h","t","t","p","s",":","/","/","o","p","e","n","l","i","b","r","a","r","y",".","o","r","g">> \o templ(result.raw.key)
    ELSE <<>>

\* fetchers.ts metadataFromSearchResult(result)
metadataFromSearchResult(result) ==
    [tag |-> "record",
     id |-> result.id,
     authors |-> result.authors,
     title |-> result.title,
     siteName |-> OrElse(result.publisher, <<"U","n","k","n","o","w","n"," ","P","u","b","l","i","s","h","e","r">>),
     publisher |-> result.publisher,
     year |-> result.year,
     month |-> Undefined,
     day |-> Undefined,
     url |-> getUrlFromResult(result),
     accessDate |-> <<>>,
     type |-> result.type]

\* the picker hands one candidate to metadataFromSearchResult: a result of
\* searchGoogleBooks, a result of searchOpenLibrary, or a SearchResult whose
\* source is "crossref"
MetadataFromSearchResult ==
    /\ pc = "idle"
    /\ LET crossref == [tag |-> "result",
                        id |-> <<"c","r","o","s","s","r","e","f","_","1","0",".","1","0","0","0","/","1","8","2">>,
                        title |-> <<"A"," ","S","t","u","d","y">>,
                        authors |-> << <<"J","a","n","e"," ","D","o","e">> >>,
                        year |-> <<"2","0","2","0">>,
                        publisher |-> <<"A","C","M","E">>,
                        type |-> "article",
                        source |-> "crossref",
                        raw |-> [DOI |-> <<"1","0",".","1","0","0","0","/","1","8","2">>]]
           candidates ==
               {googleSearchResult(v) : v \in {VolumeAusten, VolumeTwoSpaces, VolumeBare, VolumeNoInfo}}
               \cup {openLibrarySearchResult(d) : d \in {DocAusten, DocBare, DocEmma}}
               \cup {crossref}
       IN  \E result \in candidates :
              /\ metadata' = metadataFromSearchResult(result)
              /\ calls' = <<Call("fetchers.metadataFromSearchResult", result.id, "none", "record")>>
    /\ pc' = "returned"
    /\ UNCHANGED <<source, today, todayShort, sourceType, results, inflight, settled, formatted, clock, other,
                   response>>

\* lib/formatters.ts formatAllCitations(meta, todayShort)
FormatAll ==
    /\ pc = "idle"
    /\ \E meta \in Records :
          LET r == formatAllCitations(meta, toLocaleDateString(0, "en-GB"))
          IN  /\ calls' = <<Call("formatters.formatAllCitations", <<>>, "none",
                                 IF r = Fault THEN "throw" ELSE "object")>>
              /\ metadata' = meta
              /\ formatted' = r
    /\ pc' = "returned"
    /\ UNCHANGED <<source, today, todayShort, sourceType, results, other, inflight, clock, settled, response>>

\* midnight passes while the handler awaits a provider
MidnightPasses ==
    /\ pc \in {"dispatch", "isbn_fallback", "text_fallback"}
    /\ clock < MaxDay
    /\ clock' = clock + 1
    /\ UNCHANGED <<pc, source, today, todayShort, sourceType, metadata, calls, results, other, inflight, settled,
                   formatted, response>>

Next ==
    \/ ReceiveRequest
    \/ Validate
    \/ Classify
    \/ FetchDOI
    \/ FetchISBNGoogle
    \/ FetchISBNOpenLibrary
    \/ FetchYouTube
    \/ FetchWikipedia
    \/ FetchURL
    \/ SearchGoogleBooksText
    \/ SearchOpenLibraryText
    \/ FormatCitations
    \/ FallBackToGemini
    \/ FetchISBNBoth
    \/ SearchAll
    \/ FormatAll
    \/ MidnightPasses
    \/ PromiseAll
    \/ BranchSettles
    \/ MetadataFromSearchResult

(***************************************************************************)
(* Two invocations of the handler on one event loop.  Every variable of    *)
(* the handler is declared inside it (index.ts 31-98) and index.ts and     *)
(* fetchers.ts declare no variable at module level besides `app`, so each  *)
(* invocation has its own source, today, todayShort, sourceType and        *)
(* metadata; the clock is the only thing both read.                        *)
(***************************************************************************)
\* the local variables of the invocation the event loop runs
Locals ==
    [pc |-> pc, source |-> source, today |-> today, todayShort |-> todayShort,
     sourceType |-> sourceType, metadata |-> metadata, calls |-> calls, response |-> response]

\* one metadata variable for both invocations, as `let metadata` at module
\* level would be
SwitchSharedMetadata ==
    /\ pc' = other.pc
    /\ source' = other.source
    /\ today' = other.today
    /\ todayShort' = other.todayShort
    /\ sourceType' = other.sourceType
    /\ metadata' = metadata
    /\ calls' = other.calls
    /\ response' = other.response
    /\ other' = Locals
    /\ UNCHANGED <<results, settled, formatted, clock, inflight>>

\* the invocation that runs reaches an await or returns, and the event loop
\* goes on with the other invocation
Switch ==
    /\ pc' = other.pc
    /\ source' = other.source
    /\ today' = other.today
    /\ todayShort' = other.todayShort
    /\ sourceType' = other.sourceType
    /\ metadata' = other.metadata
    /\ calls' = other.calls
    /\ response' = other.response
    /\ other' = Locals
    /\ UNCHANGED <<results, settled, formatted, clock, inflight>>

\* two requests, one with a DOI and one with free text, served with their
\* steps interleaved
PairNext ==
    \/ /\ ReceiveRequest
       /\ pc' = "validate"
       /\ source' \in {JStr(<<"1","0",".","1","0","0","0","/","x","y","z","1","2","3">>), JStr(<<"P","r","i","d","e"," ","a","n","d"," ","P","r","e","j","u","d","i","c","e">>)}
    \/ Validate
    \/ Classify
    \/ FetchDOI
    \/ SearchGoogleBooksText
    \/ SearchOpenLibraryText
    \/ FormatCitations
    \/ FallBackToGemini /\ calls'[Len(calls')].resp.kind = "apifail"
    \/ MidnightPasses
    \/ Switch

SpecPair == Init /\ [][PairNext]_vars

Spec == Init /\ [][Next]_vars

(***************************************************************************)
(* Properties of the classifier.                                           *)
(***************************************************************************)
\* the positions of calls at which one of fns was invoked
CallsOf(fns) == {i \in DOMAIN calls : calls[i].fn \in fns}

\* C1: the classifier is total and deterministic.  Every string a request
\* carries, the empty string and the strings of white space included, gets
\* exactly one tag of doi, isbn, youtube, wikipedia, url, text; the call never
\* throws; and the tag depends on the string alone: the handler's application
\* of its copy of the classifier returns the tag detectInputType computes for
\* the same string.  The functions are applied where the handler holds the
\* string it has just read or just classified; what it logged then stays.
C1_ClassifierTotal ==
    /\ (pc \in {"validate", "dispatch"} /\ source.t = "string") =>
           /\ detectInputType(source.v) \in InputTypes
           /\ sourceType # "none" => sourceType = detectInputType(source.v)
    /\ source.t = "string" =>
           \A i \in CallsOf({"detectSourceType"}) :
               /\ calls[i].arg = source.v
               /\ calls[i].ret \in InputTypes
               /\ sourceType = calls[i].ret

\* a string of white space only has been classified, as text
C1_Witness ==
    /\ pc = "dispatch"
    /\ source.t = "string"
    /\ source.v # <<>>
    /\ trim(source.v) = <<>>
    /\ sourceType = "text"

\* the tag of the first rule of rules that matches
FirstMatch(rules) == rules[MinOf({i \in DOMAIN rules : rules[i].matches})].tag

\* the six rules in their priority, for a trimmed and case-folded string s
Rules(s) ==
    << [tag |-> "doi",
        matches |-> startsWith(s, <<"1","0",".">>) \/ includes(s, <<"d","o","i",".","o","r","g","/">>)],
       [tag |-> "isbn",
        matches |-> isTenOrThirteenDigits(removeHyphensAndSpaces(s))],
       [tag |-> "youtube",
        matches |-> includes(s, <<"y","o","u","t","u","b","e",".","c","o","m">>) \/ includes(s, <<"y","o","u","t","u",".","b","e">>)],
       [tag |-> "wikipedia",
        matches |-> includes(s, <<"w","i","k","i","p","e","d","i","a",".","o","r","g">>)],
       [tag |-> "url",
        matches |-> startsWith(s, <<"h","t","t","p",":","/","/">>) \/ startsWith(s, <<"h","t","t","p","s",":","/","/">>)],
       [tag |-> "text", matches |-> TRUE] >>

\* the six-step decision list applied to the trimmed, case-folded string
DecisionList(str) == FirstMatch(Rules(toLowerCase(trim(str))))

\* C2: for every input the classifier's result is the tag of the first
\* matching rule of the decision list doi, isbn, youtube, wikipedia, url,
\* text applied to the trimmed, case-folded string; so a DOI URL is doi and
\* not url, "978-0-13-468599-1" is isbn and "12345" is text.
C2_FirstMatchingRule ==
    (pc \in {"validate", "dispatch"} /\ source.t = "string") =>
        /\ detectInputType(source.v) = DecisionList(source.v)
        /\ sourceType # "none" => sourceType = DecisionList(source.v)
        /\ source.v = <<"h","t","t","p","s",":","/","/","d","o","i",".","o","r","g","/","1","0",".","1","0","0","0","/","x","y","z","1","2","3">> => detectInputType(source.v) = "doi"
        /\ source.v = <<"9","7","8","-","0","-","1","3","-","4","6","8","5","9","9","-","1">> => detectInputType(source.v) = "isbn"
        /\ source.v = <<"1","2","3","4","5">> => detectInputType(source.v) = "text"

\* a DOI URL, which starts with https:// as well, has been classified doi
C2_Witness ==
    /\ pc = "dispatch"
    /\ source = JStr(<<"h","t","t","p","s",":","/","/","d","o","i",".","o","r","g","/","1","0",".","1","0","0","0","/","x","y","z","1","2","3">>)
    /\ sourceType = "doi"

\* C3: for every input the classifier tags doi, extractDOI returns the bare
\* DOI: no surrounding white space, no scheme, no resolver prefix; every
\* wrapper of 10.1000/xyz123 that is tagged doi extracts to 10.1000/xyz123.
C3_BareDOI ==
    \A i \in CallsOf({"fetchDOIMetadata"}) :
        LET doi == extractDOI(calls[i].arg)
            folded == toLowerCase(doi)
        IN  /\ trim(doi) = doi
            /\ ~startsWith(folded, <<"h","t","t","p",":","/","/">>)
            /\ ~startsWith(folded, <<"h","t","t","p","s",":","/","/">>)
            /\ ~includes(folded, <<"d","o","i",".","o","r","g","/">>)
            /\ includes(calls[i].arg, <<"1","0",".","1","0","0","0","/","x","y","z","1","2","3">>) => doi = <<"1","0",".","1","0","0","0","/","x","y","z","1","2","3">>

(***************************************************************************)
(* Properties of the handler.                                              *)
(***************************************************************************)
\* the adapter of each tag that has one
AdapterOf ==
    [doi |-> "fetchDOIMetadata", isbn |-> "fetchISBNMetadata",
     youtube |-> "fetchYouTubeMetadata", wikipedia |-> "fetchWikipediaMetadata",
     url |-> "fetchURLMetadata"]

Adapters == {AdapterOf[tag] : tag \in DOMAIN AdapterOf}

\* the lookups of the ISBN adapter and of the text case
ISBNLookups == {"fetchGoogleBooksByISBN", "fetchOpenLibraryByISBN"}
TextLookups == {"searchGoogleBooks", "searchOpenLibrary"}

\* C4: the handler makes one routing decision per request: the adapter it
\* invokes is the one of the input's tag, it invokes it at most once, and it
\* invokes no adapter or lookup that belongs to another tag; once it is past
\* the switch with a tag that has an adapter, it has invoked that adapter.
C4_OneRoutingDecision ==
    sourceType # "none" =>
        LET invoked == CallsOf(Adapters)
        IN  /\ Cardinality(invoked) <= 1
            /\ \A i \in invoked :
                  sourceType \in DOMAIN AdapterOf /\ calls[i].fn = AdapterOf[sourceType]
            /\ (sourceType \in DOMAIN AdapterOf /\ pc # "dispatch") => Cardinality(invoked) = 1
            /\ sourceType # "isbn" => CallsOf(ISBNLookups) = {}
            /\ sourceType # "text" => CallsOf(TextLookups) = {}

\* a YouTube link has been routed to the video adapter
C4_Witness ==
    /\ pc = "resolve"
    /\ sourceType = "youtube"
    /\ CallsOf(Adapters) = {2}
    /\ calls[2].fn = "fetchYouTubeMetadata"

\* what holds of every state for C5
C5_State ==
    LET gemini == CallsOf({"generateWithGemini"})
        formatter == CallsOf({"formatAllCitations"})
    IN  /\ Cardinality(gemini) + Cardinality(formatter) <= 1
        /\ gemini # {} =>
              /\ metadata = Null
              /\ \A i \in CallsOf(Adapters \cup ISBNLookups \cup TextLookups) : calls[i].ret = "null"
        /\ formatter # {} => metadata # Null
        /\ (pc = "done" /\ sourceType # "none") =>
              /\ metadata = Null =>
                    /\ Cardinality(gemini) = 1
                    /\ calls[Len(calls)].fn = "generateWithGemini"
                    /\ calls[Len(calls)].arg = source.v
                    /\ Cardinality(CallsOf(Adapters)) <= 1
              /\ metadata # Null =>
                    /\ Cardinality(formatter) = 1
                    /\ calls[Len(calls)].fn = "formatAllCitations"
        /\ response.status = 200 =>
              /\ Cardinality(gemini) + Cardinality(formatter) = 1
              /\ calls[Len(calls)].ret = "object"
        /\ (pc = "done") = (response # NoResponse)

\* C5: in every request, when the lookup of the input's tag returns null
\* the handler tries no other source type and does not run the formatter: it
\* hands the raw input to the AI fallback, once; when the lookup returns a
\* record the AI fallback is never called.  So exactly one of the formatter
\* and the AI fallback produces the citations of a successful response, and
\* a request gets one response: a response, once sent, is never replaced.
C5_OneProducer == [](C5_State) /\ [][response = NoResponse]_response

\* the adapter of a URL returned null and the AI fallback produced the
\* citations of the response
C5_Witness ==
    /\ pc = "done"
    /\ sourceType = "url"
    /\ metadata = Null
    /\ response.status = 200
    /\ Len(calls) = 3
    /\ calls[2].fn = "fetchURLMetadata"
    /\ calls[3].fn = "generateWithGemini"

NoSource == {JUndefined, JNull, JStr(<<>>)}

\* C7: an empty or absent source is answered at once with the input error
\* "No source provided": the classifier, the adapters, the formatter and the
\* AI fallback are not invoked for it, and the response is not the generic
\* failure.
C7_NoSourceProvided ==
    source \in NoSource =>
        /\ calls = <<>>
        /\ pc \in {"validate", "done"}
        /\ pc = "done" => response = InputError
        /\ response \in {NoResponse, InputError}

\* a request whose source is the empty string got the input error
C7_Witness ==
    /\ pc = "done"
    /\ source = JStr(<<>>)
    /\ response = InputError
    /\ calls = <<>>

(***************************************************************************)
(* Properties of the adapters and of the AI fallback.                      *)
(***************************************************************************)
\* the provider adapters: the five of the handler's switch with the lookups
\* the ISBN adapter makes, the two lookups of the text case, and the three
\* exports of fetchers.ts that go to a provider
Providers ==
    Adapters \cup ISBNLookups \cup TextLookups
    \cup {"fetchers.fetchISBNMetadata", "fetchers.searchGoogleBooks", "fetchers.searchOpenLibrary"}

\* the provider responses that are faults: the network failed, the status
\* is not OK, the body does not parse
ProviderFaults == {"netfail", "notok", "badbody"}

\* C8: every provider adapter returns a record, null or a list, empty or
\* not, for every input and every provider response; on a network failure,
\* a status that is not OK or a body that does not parse it returns what it
\* returns on a miss, null or the empty list; no adapter throws, so the
\* handler goes on after a fault as after a miss.
C8_AdaptersNeverThrow ==
    \A i \in CallsOf(Providers) :
        /\ calls[i].ret \in {"record", "null", "list", "empty"}
        /\ calls[i].resp \in ProviderFaults => calls[i].ret \in {"null", "empty"}
        /\ i = Len(calls) =>
              /\ pc \in {"isbn_fallback", "text_fallback", "resolve", "returned", "isbn_all", "search_all"}
              /\ response = NoResponse

\* the encyclopedia adapter returned null for a slug whose percent-encoding
\* is malformed, and the handler goes on to resolve the request
C8_Witness ==
    /\ pc = "resolve"
    /\ sourceType = "wikipedia"
    /\ source = JStr(<<"h","t","t","p","s",":","/","/","e","n",".","w","i","k","i","p","e","d","i","a",".","o","r","g","/","w","i","k","i","/","%","E","0","%","A","4","%","A">>)
    /\ Len(calls) = 2
    /\ calls[2].fn = "fetchWikipediaMetadata"
    /\ calls[2].ret = "null"
    /\ metadata = Null

\* the object the prompt tells the model to answer with when it does not
\* know the data
NoAccurateData ==
    [error |-> JStr(<<"C","o","u","l","d"," ","n","o","t"," ","f","i","n","d"," ","a","c","c","u","r","a","t","e"," ","c","i","t","a","t","i","o","n"," ","d","a","t","a">>)]

\* the AI fallback did not produce parseable output, or answered with
\* NoAccurateData
FallbackFailed(out) ==
    \/ out.kind = "apifail"
    \/ out.json \in {"none", "invalid"}
    \/ out.json = "object" /\ out.obj = NoAccurateData

\* C9: when the lookups returned null and the AI fallback does not produce
\* parseable output or answers that it found no accurate data, the request
\* fails with the generic fault "Failed to generate citation" and carries no
\* citations; and no provider and no AI call is made twice in the request.
C9_FallbackFailure ==
    /\ \A i, j \in DOMAIN calls : calls[i].fn = calls[j].fn => i = j
    /\ \A i \in CallsOf({"generateWithGemini"}) :
          /\ i = Len(calls)
          /\ metadata = Null
          /\ pc = "done"
          /\ FallbackFailed(calls[i].resp) =>
                /\ calls[i].ret = "throw"
                /\ response = GenericError
                /\ "citations" \notin DOMAIN response

\* a text input found in neither catalog, for which the AI fallback answered
\* that it found no accurate data, got the generic fault
C9_Witness ==
    /\ pc = "done"
    /\ sourceType = "text"
    /\ Len(calls) = 4
    /\ calls[4].fn = "generateWithGemini"
    /\ calls[4].resp.kind = "text"
    /\ calls[4].resp.json = "object"
    /\ calls[4].resp.obj = NoAccurateData
    /\ response = GenericError

\* the four keys of a citations record
CitationKeys == {"apa7", "mla9", "chicago", "harvard"}

\* C10: every successful response carries a citations record with exactly
\* the four keys apa7, mla9, chicago and harvard, each a string, on the
\* formatter path and on the AI-fallback path alike, whatever parseable JSON
\* object the fallback returned.
C10_FourKeys ==
    response.status = 200 =>
        /\ DOMAIN response.citations = CitationKeys
        /\ \A k \in DOMAIN response.citations : response.citations[k].t = "string"

(***************************************************************************)
(* Properties of the search aggregator, fetchers.ts searchAll.             *)
(***************************************************************************)
\* two candidates are duplicates: equal titles and equal first authors, both
\* compared without regard to case
Duplicates(a, b) ==
    /\ toLowerCase(a.title) = toLowerCase(b.title)
    /\ a.authors # <<>> /\ b.authors # <<>>
    /\ toLowerCase(a.authors[1]) = toLowerCase(b.authors[1])

\* C11: in the output of searchAll no two entries are duplicates, whether the
\* two candidates came from the same provider or from different providers.
\* The code compares only the Open Library candidates with what is already
\* collected: two Google Books candidates that duplicate each other both stay.
C11_NoDuplicates ==
    results.tag = "list" =>
        \A i, j \in 1..Len(results.items) :
            i < j => ~Duplicates(results.items[i], results.items[j])

\* C12: an Open Library candidate without authors, whose title equals (without
\* regard to case) the title of an already collected candidate without
\* authors, is in the output of searchAll all the same (fewer than ten
\* candidates: the cut does not apply).  The code compares authors[0] of both,
\* undefined with undefined, and drops the candidate.
C12_ZeroAuthorsKept ==
    results.tag = "list" =>
        LET collected == settled[1].items
            openLib == settled[2].items
        IN  Len(collected) + Len(openLib) <= 10 =>
            \A k \in 1..Len(openLib) :
                (/\ openLib[k].authors = <<>>
                 /\ \E c \in 1..Len(collected) :
                       /\ collected[c].authors = <<>>
                       /\ toLowerCase(collected[c].title) = toLowerCase(openLib[k].title))
                => \E i \in 1..Len(results.items) : results.items[i].id = openLib[k].id

\* the completeness of a candidate: one for a year, one for a publisher, one
\* for at least one author
Completeness(r) ==
    Cardinality({f \in {"year", "publisher"} : r[f] \notin {Undefined, <<>>}})
    + (IF r.authors # <<>> THEN 1 ELSE 0)

\* the place of a candidate in the order of encounter: the first provider's
\* candidates in their order, then the second provider's in theirs
Encounter(r) ==
    LET all == settled[1].items \o settled[2].items
    IN  MinOf({k \in 1..Len(all) : all[k].id = r.id})

\* C13: the output of searchAll is in descending order of completeness, and
\* candidates of equal completeness are in their order of encounter.
C13_RankedStably ==
    results.tag = "list" =>
        \A i, j \in 1..Len(results.items) :
            i < j =>
                LET a == results.items[i]
                    b == results.items[j]
                IN  \/ Completeness(a) > Completeness(b)
                    \/ Completeness(a) = Completeness(b) /\ Encounter(a) < Encounter(b)

\* searchAll has returned for candidates of completeness 2, 1, 2, 0 from the
\* first provider, and its output holds candidates of equal completeness from
\* both providers
C13_Witness ==
    /\ pc = "returned" /\ results.tag = "list"
    /\ Len(settled[1].items) = 4
    /\ [k \in 1..4 |-> Completeness(settled[1].items[k])] = <<2, 1, 2, 0>>
    /\ \E i, j \in 1..Len(results.items) :
          /\ i < j
          /\ Completeness(results.items[i]) = Completeness(results.items[j])
          /\ results.items[i].source = "google_books"
          /\ results.items[j].source = "openlibrary"

(***************************************************************************)
(* Properties of the ISBN lookup.                                          *)
(***************************************************************************)
\* fetchers.ts fetchISBNMetadata has returned: what its two lookups gave
ISBNBothReturned ==
    pc = "returned" /\ calls # <<>> /\ calls[Len(calls)].fn = "fetchers.fetchISBNMetadata"

\* the number a year of four digits stands for
YearNumber(y) ==
    LET digit(c) == CHOOSE d \in 0..9 : DecimalDigits[d + 1] = c
    IN  1000 * digit(y[1]) + 100 * digit(y[2]) + 10 * digit(y[3]) + digit(y[4])

C15_MergeFrame ==
    /\ ISBNBothReturned =>
          LET g == settled[1]
              o == settled[2]
          IN  /\ (g = Null /\ o = Null) => metadata = Null
              /\ (g # Null /\ o = Null) => metadata = g
              /\ (g = Null /\ o # Null) => metadata = o
              /\ (g # Null /\ o # Null) =>
                    /\ DOMAIN metadata = DOMAIN g
                    /\ \A f \in DOMAIN g \ {"year", "publisher"} : metadata[f] = g[f]
                    /\ metadata.publisher = IF g.publisher \notin {Undefined, <<>>}
                                            THEN g.publisher ELSE o.publisher
              /\ metadata # Null => metadata.type = "book"
    /\ (pc = "resolve" /\ sourceType = "isbn" /\ metadata # Null) =>
          /\ metadata.type = "book"
          /\ LET isbn == removeHyphensAndSpaces(source.v)
             IN  IF calls[Len(calls)].fn = "fetchISBNMetadata"
                 THEN \E resp \in GoogleISBNResponses : metadata = fetchGoogleBooksByISBN(isbn, resp)
                 ELSE \E resp \in OpenLibraryISBNResponses : metadata = fetchOpenLibraryByISBN(isbn, resp)

\* both sources have answered with records that differ in title, authors and
\* url, Google Books without a publisher and Open Library with one
C15_Witness ==
    /\ ISBNBothReturned /\ settled[1] # Null /\ settled[2] # Null
    /\ settled[1].title # settled[2].title
    /\ settled[1].authors # settled[2].authors
    /\ settled[1].url # settled[2].url
    /\ settled[1].publisher = Undefined
    /\ metadata.publisher = settled[2].publisher /\ metadata.publisher # Undefined
    /\ metadata.title = settled[1].title

(***************************************************************************)
(* Properties of the formatters.                                           *)
(***************************************************************************)
\* formatAllCitations of lib/formatters.ts has returned for the record metadata
FormatAllReturned ==
    pc = "returned" /\ calls # <<>> /\ calls[Len(calls)].fn = "formatters.formatAllCitations"

\* C16: for a record with no year, month or day, of any source type and with
\* or without authors, each of the four style formatters returns a string,
\* and the string contains "n.d.".  The Chicago format of an encyclopedia
\* entry has no year in it, and the APA name formatter throws on a name with
\* two consecutive spaces.
C16_MissingDate ==
    (FormatAllReturned /\ metadata.year = Undefined) =>
        /\ formatted # Fault
        /\ \A style \in {"apa7", "mla9", "chicago", "harvard"} :
              includes(formatted[style].v, <<"n",".","d",".">>)

\* the tokens of a name
Tokens(name) == SelectSeq(split(name, " "), LAMBDA t : t # <<>>)

\* one name in APA form: a single token as it is, otherwise the final token,
\* ", ", and the initials of the tokens before it, separated by spaces
NameAPA(name) ==
    LET tokens == Tokens(name)
        n == Len(tokens)
    IN  IF n <= 1 THEN name
        ELSE tokens[n] \o <<","," ">>
             \o join([i \in 1..(n - 1) |-> <<toUpperCaseChar(tokens[i][1]), ".">>], <<" ">>)

\* an author list in APA form: "Unknown" for none; the names separated by
\* ", ", the last one of two or more preceded by ", & "
AuthorsAPA(authors) ==
    LET n == Len(authors)
    IN  IF n = 0 THEN <<"U","n","k","n","o","w","n">>
        ELSE IF n = 1 THEN NameAPA(authors[1])
        ELSE join([i \in 1..(n - 1) |-> NameAPA(authors[i])], <<","," ">>)
             \o <<","," ","&"," ">> \o NameAPA(authors[n])

\* C17: formatAuthorAPA renders an author list in APA form, in lib/authors.ts
\* and in index.ts.  The function of index.ts joins all names with ", & ", so
\* three authors get two ampersands.
C17_AuthorAPA ==
    FormatAllReturned =>
        /\ formatAuthorAPA(metadata.authors) = AuthorsAPA(metadata.authors)
        /\ indexFormatAuthorAPA(metadata.authors) = AuthorsAPA(metadata.authors)

\* a name inverted: the part after the last space, ", ", the part before it;
\* a name without a space as it is
Inverted(name) ==
    LET spaces == {i \in 1..Len(name) : name[i] = " "}
    IN  IF spaces = {} THEN name
        ELSE SubSeq(name, MaxOf(spaces) + 1, Len(name)) \o <<","," ">>
             \o SubSeq(name, 1, MaxOf(spaces) - 1)

\* an author list in MLA form
AuthorsMLA(authors) ==
    CASE Len(authors) = 0 -> <<"U","n","k","n","o","w","n">>
      [] Len(authors) = 1 -> Inverted(authors[1])
      [] Len(authors) = 2 -> Inverted(authors[1]) \o <<","," ","a","n","d"," ">> \o authors[2]
      [] OTHER -> Inverted(authors[1]) \o <<","," ","e","t"," ","a","l",".">>

\* C18: formatAuthorMLA gives "Unknown" for no author, the inverted name for
\* one, "<inverted first>, and <second>" for two and "<inverted first>, et al."
\* for three or more.  With two or more authors the code inverts a first
\* author of a single token to "Plato, ", which it does not with one author.
C18_AuthorMLA ==
    FormatAllReturned =>
        /\ formatAuthorMLA(metadata.authors) = AuthorsMLA(metadata.authors)
        /\ indexFormatAuthorMLA(metadata.authors) = AuthorsMLA(metadata.authors)

\* C19: end to end for a DOI input, when the DOI adapter yields the record of
\* authors ["Smith, John"], title "A Study", siteName "Journal X" and year
\* "2020", the APA7 citation begins "Smith, J. (2020)." and contains the url
\* of the record, "https://doi.org/<doi>".  formatAuthorAPA takes the last
\* token of "Smith, John" for the family name and renders "John, S.".
C19_DOIEndToEnd ==
    LET scenario(m) ==
            /\ m.tag = "record" /\ m.type = "article"
            /\ m.authors = << <<"S","m","i","t","h",","," ","J","o","h","n">> >>
            /\ m.title = <<"A"," ","S","t","u","d","y">> /\ m.siteName = <<"J","o","u","r","n","a","l"," ","X">> /\ m.year = <<"2","0","2","0">>
        asClaimed(apa7, m) ==
            /\ startsWith(apa7, <<"S","m","i","t","h",","," ","J","."," ","(","2","0","2","0",")",".">>)
            /\ startsWith(m.url, <<"h","t","t","p","s",":","/","/","d","o","i",".","o","r","g","/">>)
            /\ includes(apa7, m.url)
    IN  /\ (pc = "done" /\ sourceType = "doi" /\ response.status = 200 /\ scenario(metadata))
              => asClaimed(response.citations.apa7.v, metadata)
        /\ (FormatAllReturned /\ scenario(metadata))
              => formatted # Fault /\ asClaimed(formatted.apa7.v, metadata)

\* a record of type website without authors, formatted
WebsiteWithoutAuthors(m) == m # Null /\ m.type = "website" /\ m.authors = <<>>

\* the four citations are as C20 says of the record m
SiteNameOrTitleFirst(c, m) ==
    /\ startsWith(c.apa7.v, m.siteName)
    /\ startsWith(c.harvard.v, m.siteName)
    /\ startsWith(c.mla9.v, <<"\"">> \o m.title \o <<".">> \o <<"\"">>)
    /\ startsWith(c.chicago.v, <<"\"">> \o m.title \o <<".">> \o <<"\"">>)
    /\ \A style \in {"apa7", "mla9", "chicago", "harvard"} : ~startsWith(c[style].v, <<"U","n","k","n","o","w","n">>)

\* C20: for a record of type website with no authors, the APA7 and Harvard
\* citations start with the siteName, the MLA9 and Chicago citations with the
\* quoted title, and none starts with "Unknown"; in lib/formatters.ts and in
\* the handler of index.ts.
C20_WebsiteWithoutAuthors ==
    /\ (FormatAllReturned /\ WebsiteWithoutAuthors(metadata))
          => formatted # Fault /\ SiteNameOrTitleFirst(formatted, metadata)
    /\ (pc = "done" /\ response.status = 200 /\ WebsiteWithoutAuthors(metadata))
          => SiteNameOrTitleFirst(response.citations, metadata)

\* formatAllCitations has returned the four citations of a website without
\* authors and without a year
C20_Witness ==
    /\ FormatAllReturned /\ WebsiteWithoutAuthors(metadata)
    /\ metadata.year = Undefined
    /\ formatted # Fault
    /\ startsWith(formatted.apa7.v, metadata.siteName \o <<"."," ","(","n",".","d",".",")">>)

\* C21: in each of the four styles the title of a book, video or website is
\* inside the italic wrapper, and the title of an article or encyclopedia
\* entry is not: there the siteName is.  MLA9 and Chicago put the title of a
\* video or website in quotation marks and italicize the siteName.
C21_TitleEmphasis ==
    (FormatAllReturned /\ formatted # Fault) =>
        \A style \in {"apa7", "mla9", "chicago", "harvard"} :
            LET titleInItalics == includes(formatted[style].v, italic(metadata.title))
                siteInItalics == includes(formatted[style].v, italic(metadata.siteName))
            IN  IF metadata.type \in {"book", "video", "website"}
                THEN titleInItalics
                ELSE ~titleInItalics /\ siteInItalics


\* C22: no adapter assigns accessDate, and the accessDate of an answered request
\* is the en-US long date of the day on which the record was resolved, not of
\* the day on which the request entered the handler.
C22_AccessDateAtResolution ==
    /\ (pc = "resolve" /\ metadata # Null) => metadata.accessDate = <<>>
    /\ (pc = "done" /\ response.status = 200 /\ metadata # Null) =>
           metadata.accessDate = toLocaleDateString(clock, "en-US")


\* the calls of the two branches of a fan-out logged so far
BranchCalls(b) ==
    {i \in DOMAIN calls :
        calls[i].fn \in (IF b = 1 THEN {"fetchGoogleBooksByISBN", "fetchers.searchGoogleBooks"}
                         ELSE {"fetchOpenLibraryByISBN", "fetchers.searchOpenLibrary"})}

\* fetchISBNMetadata or searchAll has returned
FanOutJoined ==
    pc = "returned" /\ calls # <<>>
        /\ calls[Len(calls)].fn \in {"fetchers.fetchISBNMetadata", "searchAll"}

\* the entries of a result list, as a set
ItemSet(list) == {list.items[k] : k \in DOMAIN list.items}

\* C23: fetchISBNMetadata and searchAll each start exactly two provider calls
\* together; a branch is called once and never again; merging happens only after
\* both branches have settled, in whichever order they did; and when one branch
\* brings nothing (null, or an empty list) the data of the other branch is the
\* result.
C23_FanOutJoin ==
    /\ pc \in {"isbn_all", "search_all"} =>
          /\ inflight.pending \subseteq {1, 2}
          /\ \A b \in {1, 2} :
                /\ b \in inflight.pending <=> settled[b] = [tag |-> "pending"]
                /\ Cardinality(BranchCalls(b)) = (IF b \in inflight.pending THEN 0 ELSE 1)
    /\ FanOutJoined =>
          /\ inflight.pending = {}
          /\ Len(calls) = 3
          /\ \A b \in {1, 2} :
                /\ Cardinality(BranchCalls(b)) = 1
                /\ settled[b] # [tag |-> "pending"]
                /\ settled[b] # Fault
          /\ calls[3].fn = "fetchers.fetchISBNMetadata" =>
                /\ settled[1] = Null => metadata = settled[2]
                /\ settled[2] = Null => metadata = settled[1]
          /\ calls[3].fn = "searchAll" =>
                /\ settled[1].items = <<>> => ItemSet(results) = ItemSet(settled[2])
                /\ settled[2].items = <<>> => ItemSet(results) = ItemSet(settled[1])

\* Open Library answers first and Google Books fails afterwards: the record of
\* Open Library is the result
C23_Witness ==
    /\ FanOutJoined
    /\ calls[1].fn = "fetchOpenLibraryByISBN" /\ calls[1].ret = "record"
    /\ calls[2].fn = "fetchGoogleBooksByISBN" /\ calls[2].resp \in ProviderFaults
    /\ settled[1] = Null
    /\ metadata = settled[2] /\ metadata # Null


\* C24: the url of every record an adapter returned, and of every record
\* metadataFromSearchResult made from a candidate of whatever provenance, is a
\* non-empty string.
C24_UrlNeverEmpty ==
    (metadata # Null /\ metadata # Fault) => metadata.url \notin {<<>>, Undefined}


\* the records the adapters can hand to a request for the string s, whatever
\* the providers answer
Resolvable(s) ==
    IF detectSourceType(s) = "doi"
    THEN {fetchDOIMetadata(s, r) : r \in CrossRefResponses}
    ELSE {searchGoogleBooksBest(s, r) : r \in GoogleSearchResponses}
         \cup {searchOpenLibraryBest(s, r) : r \in OpenLibrarySearchResponses}

\* the local variables L are those of a request served alone: the date is one
\* the request read itself, the record is one an adapter returns for the
\* request's own source, and the response is what the handler answers from the
\* request's own source, date, record and fallback output
ServedAlone(L) ==
    /\ L.pc \notin {"idle", "validate"} /\ L.response.status # 400 =>
          \E d \in 0..MaxDay : /\ L.today = toLocaleDateString(d, "en-US")
                               /\ L.todayShort = toLocaleDateString(d, "en-GB")
    /\ L.pc \in {"dispatch", "text_fallback", "resolve"} =>
          /\ L.sourceType = detectSourceType(L.source.v)
          /\ L.response = NoResponse
    /\ L.metadata # Null =>
          /\ L.pc \in {"resolve", "done"}
          /\ [L.metadata EXCEPT !.accessDate = <<>>] \in Resolvable(L.source.v)
          /\ L.metadata.accessDate = (IF L.pc = "done" THEN L.today ELSE <<>>)
          /\ \A i \in DOMAIN L.calls :
                L.calls[i].fn = "searchOpenLibrary" =>
                    [L.metadata EXCEPT !.accessDate = <<>>] \in
                        {searchOpenLibraryBest(L.source.v, r) : r \in OpenLibrarySearchResponses}
    /\ L.pc = "done" /\ L.source # Unassigned /\ L.source.t = "string" /\ L.response.status # 400 =>
          LET last == L.calls[Len(L.calls)]
          IN  IF L.metadata # Null
              THEN LET citations == indexFormatAllCitations(L.metadata, L.todayShort)
                   IN  L.response = IF citations = Fault THEN GenericError ELSE Success(citations)
              ELSE IF last.fn = "generateWithGemini"
              THEN LET citations == generateWithGemini(L.source.v, L.today, last.resp)
                   IN  /\ last.arg = L.source.v
                       /\ L.response = IF citations = Fault THEN GenericError ELSE Success(citations)
              ELSE last.ret = "throw" /\ L.response = GenericError

\* C25: with the steps of two requests interleaved in any order, each request
\* ends as it would when served alone with the same provider answers, and a
\* step of one request leaves every local variable of the other as it was.
C25_Independent ==
    /\ [](ServedAlone(Locals) /\ ServedAlone(other))
    /\ [][other' # other => (other' = Locals /\ Locals' = other)]_vars

\* one request has been answered from its record while the other, received on
\* the day before with another source, holds its own record and waits
C25_Witness ==
    /\ pc = "done" /\ response.status = 200 /\ metadata # Null
    /\ other.pc = "resolve" /\ other.metadata # Null
    /\ other.source # source
    /\ other.today # today
    /\ other.metadata.title # metadata.title


\* the handler has called the encyclopedia adapter for a source tagged wikipedia
WikipediaReturned ==
    pc = "resolve" /\ sourceType = "wikipedia"

\* the part of s after the first "wikipedia.org/wiki/" that an article slug
\* follows, up to the first '#' or '?'; Undefined when there is none
ArticleSlug(s) ==
    LET path == <<"w","i","k","i","p","e","d","i","a",".","o","r","g","/","w","i","k","i","/">>
        after == {i \in 1..Len(s) :
                     /\ i > Len(path)
                     /\ SubSeq(s, i - Len(path), i - 1) = path
                     /\ s[i] \notin {"#", "?"}}
    IN  IF after = {} THEN Undefined
        ELSE LET from == CHOOSE i \in after : \A j \in after : i <= j
                 ends == {j \in from..Len(s) : s[j] \in {"#", "?"}}
                 to == IF ends = {} THEN Len(s)
                       ELSE (CHOOSE j \in ends : \A k \in ends : j <= k) - 1
             IN  SubSeq(s, from, to)

\* the title the encyclopedia adapter is to give: the slug with underscores
\* replaced by spaces, then percent-decoded (Thrown when that fails)
ArticleTitle(s) ==
    LET slug == ArticleSlug(s)
    IN  decodeURIComponent([i \in 1..Len(slug) |-> IF slug[i] = "_" THEN " " ELSE slug[i]])

\* the record the encyclopedia adapter is to return for s
ArticleRecord(s) ==
    /\ metadata # Null
    /\ metadata.title = ArticleTitle(s)
    /\ metadata.authors = <<>>
    /\ metadata.siteName = <<"W","i","k","i","p","e","d","i","a">>
    /\ metadata.publisher = <<"W","i","k","i","m","e","d","i","a"," ","F","o","u","n","d","a","t","i","o","n">>
    /\ metadata.type = "encyclopedia"
    /\ metadata.url = s

\* C26 as stated: for every source tagged wikipedia the adapter, without a
\* network call, returns the record made from the URL alone.
C26_AlwaysARecord ==
    WikipediaReturned =>
        /\ calls[Len(calls)].fn = "fetchWikipediaMetadata" /\ calls[Len(calls)].resp = "none"
        /\ ArticleRecord(source.v)

\* C26 amended: for every source tagged wikipedia the adapter makes no network
\* call; it returns null when the source has no "wikipedia.org/wiki/" followed
\* by a slug or when the percent-decoding of the slug fails, and otherwise the
\* record made from the URL alone: title = the slug with underscores replaced
\* by spaces and then percent-decoded, no authors, siteName "Wikipedia",
\* publisher "Wikimedia Foundation", type encyclopedia, url = the source
\* verbatim.
C26_RecordOrNull ==
    WikipediaReturned =>
        /\ calls[Len(calls)].fn = "fetchWikipediaMetadata" /\ calls[Len(calls)].resp = "none"
        /\ Len(calls) = 2
        /\ IF ArticleSlug(source.v) = Undefined \/ ArticleTitle(source.v) = Thrown
           THEN metadata = Null
           ELSE ArticleRecord(source.v)

\* a padded link to the article A_B%28c%29 with a fragment: the title is
\* "A B(c)" and the url keeps the padding and the fragment
C26_Witness ==
    /\ WikipediaReturned
    /\ metadata # Null
    /\ metadata.title = <<"A"," ","B","(","c",")">>
    /\ metadata.url = source.v
    /\ source.v[1] = " "
    /\ source.v[Len(source.v) - 3] = "#"


C28_SingleTokenFirstAuthor ==
    (/\ FormatAllReturned
     /\ Len(metadata.authors) >= 2
     /\ \A i \in 1..Len(metadata.authors[1]) : metadata.authors[1][i] # " ") =>
        LET rest == IF Len(metadata.authors) = 2
                    THEN <<","," ","a","n","d"," ">> \o metadata.authors[2]
                    ELSE <<","," ","e","t"," ","a","l",".">>
        IN  /\ formatAuthorMLA(metadata.authors) = metadata.authors[1] \o rest
            /\ ~includes(formatAuthorMLA(metadata.authors), <<","," ",",">>)


\* C29: for author names that are non-empty strings, names with two spaces in
\* a row or a space at either end included, formatAuthorAPA returns a string
\* and the four style formatters return their citations; a request whose
\* adapter returned a record with such names is answered with the citations,
\* not with "Failed to generate citation".
C29_AuthorNamesNeverThrow ==
    LET named(m) == \A i \in 1..Len(m.authors) : m.authors[i] # <<>>
    IN  /\ (FormatAllReturned /\ named(metadata)) =>
               /\ formatAuthorAPA(metadata.authors) # Thrown
               /\ formatted # Fault
        /\ (pc = "done" /\ metadata # Null /\ named(metadata)
              /\ calls[Len(calls)].fn = "formatAllCitations") =>
               response.status = 200

====
